---- MODULE Spec2Model ----
(***************************************************************************)
(* Model of the FPL award pipeline (src/data_pipeline.py).                 *)
(*                                                                         *)
(* The unit of work of main() is the body of its inner loop, lines         *)
(* 182-340: for one gameweek gw and one manager it fetches the manager's   *)
(* selection (picks_data), resolves the active squad and the bench, and    *)
(* appends one row per award to long_format_data.  ProcessManager models   *)
(* that body statement by statement, for the awards modelled here          *)
(* (best_vc, transfer_king, bench_king, shooting_stars, penalty_king,      *)
(* best_underdog); SkipManager is the same body when the selection could   *)
(* not be fetched.  The pre-fetched                                        *)
(* dictionaries, the head-to-head matches and the Time Machine store are   *)
(* read-only inputs of that body and are drawn by the initial predicates.  *)
(* AggregateAwards models lines 349-367, the pivot/total/rank step.        *)
(* AggregateSingleValue models lines 369-402.  SpecRun strings these steps *)
(* into whole runs of main(), from the base fetches to the publish loop,   *)
(* over a spreadsheet and a provider that outlive a run.  The retry        *)
(* wrapper safe_gspread_api_call of src/app.py is modelled by SpecRetry.   *)
(***************************************************************************)
EXTENDS Integers, Sequences, FiniteSets, TLC

\* ---------------------------------------------------------------- bounds
MaxSubs == 2          \* longest automatic_subs list drawn
NumPicks == 15        \* picks in a selection payload (the provider sends 15)
MaxGW == 2            \* gameweeks 1..MaxGW
MaxTransfers == 2     \* most transfers a manager makes in one gameweek
NumManagers == 5      \* managers of the league
NumScored == 3        \* managers with rows in the award being aggregated

\* ------------------------------------------------------ program constants
StartingXI == 11      \* picks_data['picks'][:11] and [11:]

Managers == 1..NumManagers
Gameweeks == 1..MaxGW
Players == 1..(NumPicks + 1)       \* the picked players and one outsider
NoPlayer == 0                      \* Python None for a player id

Min(S) == CHOOSE x \in S : \A y \in S : x <= y

RECURSIVE SeqsUpTo(_, _)
\* every sequence over S of length 0..n
SeqsUpTo(S, n) ==
    IF n = 0 THEN {<<>>}
    ELSE LET shorter == SeqsUpTo(S, n - 1)
         IN shorter \cup {Append(s, x) : s \in {t \in shorter : Len(t) = n - 1}, x \in S}

\* ------------------------------------------------------------ selections
\* get_json_from_url returns None on any request error (lines 62-70).
None == [none |-> TRUE]
\* A payload without a 'picks' list.
NoPicksPayload == [active_chip |-> "none"]

IsNone(d) == "none" \in DOMAIN d
HasPicks(d) == "picks" \in DOMAIN d

\* The 15 picks in selection order with the captain and vice-captain flags.
MkPicks(cap, vice) ==
    [i \in 1..NumPicks |->
        [element |-> i, is_captain |-> (i = cap), is_vice_captain |-> (i = vice)]]

MkPicksData(chip, subs, cap, vice) ==
    [picks |-> MkPicks(cap, vice), active_chip |-> chip, automatic_subs |-> subs]

Chips == {"none", "bboost", "freehit", "wildcard", "3xc"}

\* ------------------------------------------------- get_active_squad_ids
\* A swap that happens only when the outgoing player is in the squad.
ApplySubGuarded(squad, sub) ==
    IF sub.element_out \in squad
    THEN (squad \ {sub.element_out}) \cup {sub.element_in}
    ELSE squad

\* One (element_out, element_in) pair: discard, then add (line 77).
ApplySub(squad, sub) == (squad \ {sub.element_out}) \cup {sub.element_in}

RECURSIVE ApplySubs(_, _)
\* The loop of lines 76-77 over the list, in listed order.
ApplySubs(squad, subs) ==
    IF subs = <<>> THEN squad
    ELSE ApplySubs(ApplySub(squad, Head(subs)), Tail(subs))

\* picks_data['picks'][:n] as the set of its elements
PicksHead(picks, n) == {picks[i].element : i \in 1..Min({n, Len(picks)})}
\* picks_data['picks'][n:]
PicksTail(picks, n) == {picks[i].element : i \in (n + 1)..Len(picks)}

get_active_squad_ids(d) ==
    IF IsNone(d) \/ ~HasPicks(d) THEN {}
    ELSE IF d.active_chip = "bboost" THEN {d.picks[i].element : i \in 1..Len(d.picks)}
    ELSE ApplySubs(PicksHead(d.picks, StartingXI), d.automatic_subs)

\* bench_squad_ids of line 188
BenchSquadIds(d) == PicksTail(d.picks, StartingXI)

\* ------------------------------------------- get_gw_score_from_history
\* The first history row of round g gives the score; 0 without one.
get_gw_score_from_history(history, g) ==
    LET hits == {i \in 1..Len(history) : history[i].round = g}
    IN IF hits = {} THEN 0 ELSE history[Min(hits)].total_points

\* ------------------------------------------------------------- best_vc
\* vc_id of line 238: the first pick flagged is_vice_captain, else None.
VcId(d) ==
    LET hits == {i \in 1..Len(d.picks) : d.picks[i].is_vice_captain}
    IN IF hits = {} THEN NoPlayer ELSE d.picks[Min(hits)].element

\* vc_points of lines 236-244
BestVcScore(d, details, g) ==
    IF VcId(d) # NoPlayer
    THEN get_gw_score_from_history(details[VcId(d)].history, g)
    ELSE 0

\* ------------------------------------------------------- transfer_king
\* chip_played_this_gw of line 253: the first chip of the history whose
\* event is g, else None.
ChipPlayedThisGw(history_data, g) ==
    LET hits == {i \in 1..Len(history_data.chips) : history_data.chips[i].event = g}
    IN IF hits = {} THEN "none" ELSE history_data.chips[Min(hits)].name

\* transfers_in_gw of line 257, in list order
TransfersInGw(transfers, g) == SelectSeq(transfers, LAMBDA t : t.event = g)

\* cost of line 261
TransferCost(history_data, g) ==
    LET hits == {i \in 1..Len(history_data.current) : history_data.current[i].event = g}
    IN IF hits = {} THEN 0 ELSE history_data.current[Min(hits)].event_transfers_cost

RECURSIVE PointsOf(_, _, _, _)
\* sum of get_gw_score_from_history over one side of the transfers
PointsOf(ts, side, details, g) ==
    IF ts = <<>> THEN 0
    ELSE get_gw_score_from_history(
             details[IF side = "in" THEN Head(ts).element_in
                     ELSE Head(ts).element_out].history, g)
         + PointsOf(Tail(ts), side, details, g)

\* points_in - points_out - cost of lines 259-262, when there are transfers
TransferNet(history_data, transfers, details, g) ==
    LET ts == TransfersInGw(transfers, g)
    IN IF ts # <<>>
       THEN PointsOf(ts, "in", details, g) - PointsOf(ts, "out", details, g)
            - TransferCost(history_data, g)
       ELSE 0

\* The net gain without the wildcard / free-hit exclusion.
TransferScoreNoChipCheck(history_data, transfers, details, g) ==
    TransferNet(history_data, transfers, details, g)

\* transfer_score_gw of lines 249-262
TransferScore(history_data, transfers, details, g) ==
    IF ChipPlayedThisGw(history_data, g) \notin {"wildcard", "freehit"}
    THEN TransferNet(history_data, transfers, details, g)
    ELSE 0

\* ---------------------------------------------------------- bench_king
\* Line 267 indexes history[gw-1]: an IndexError when the history is shorter.
BenchRaises(bench, details, g) == \E p \in bench : Len(details[p].history) < g

RECURSIVE SumOver(_, _, _)
SumOver(S, details, g) ==
    IF S = {} THEN 0
    ELSE LET p == CHOOSE x \in S : TRUE
         IN details[p].history[g].total_points + SumOver(S \ {p}, details, g)

\* bench_points of line 267, when no index is out of range
BenchPoints(bench, details, g) == SumOver(bench, details, g)

\* ------------------------------------------------------- best_underdog
\* The guard without its gameweek test.
UnderdogGuardNoGw(g, store) == store # <<>>

\* The guard of line 310.
UnderdogGuard(g, store) == g > 1 /\ store # <<>>

\* Rows of the matches of gameweek g that involve manager m (line 312).
MatchRows(matches, g, m) ==
    {i \in 1..Len(matches) :
        matches[i].event = g
        /\ (matches[i].entry_1_entry = m \/ matches[i].entry_2_entry = m)}

\* An opponent lookup that counts a draw as a win.
OpponentIdDrawWins(match, m) ==
    IF match.entry_1_entry = m /\ match.entry_1_points >= match.entry_2_points
    THEN match.entry_2_entry
    ELSE IF match.entry_2_entry = m /\ match.entry_2_points >= match.entry_1_points
    THEN match.entry_1_entry
    ELSE NoPlayer

\* opponent_id of lines 316-321: set only when m won the match.
OpponentId(match, m) ==
    IF match.entry_1_entry = m /\ match.entry_1_points > match.entry_2_points
    THEN match.entry_2_entry
    ELSE IF match.entry_2_entry = m /\ match.entry_2_points > match.entry_1_points
    THEN match.entry_1_entry
    ELSE NoPlayer

\* A lookup that reads the ranks recorded one gameweek later.
StoreRowsNext(store, g, m) ==
    {i \in 1..Len(store) : store[i].gameweek = g + 1 /\ store[i].manager_id = m}

\* Rows of the store for (gameweek g, manager m) (lines 325-326).
StoreRows(store, g, m) ==
    {i \in 1..Len(store) : store[i].gameweek = g /\ store[i].manager_id = m}

\* A hierarchy without the top tier.
UnderdogHierarchyFlat(c, h) ==
    IF c = 1 \/ h = 1 THEN 2
    ELSE IF (2 <= c /\ c <= 4) \/ (2 <= h /\ h <= 4) THEN 1
    ELSE 0

\* The scoring hierarchy of lines 333-338.
UnderdogHierarchy(c, h) ==
    IF c = 1 /\ h = 1 THEN 3
    ELSE IF c = 1 \/ h = 1 THEN 2
    ELSE IF (2 <= c /\ c <= 4) \/ (2 <= h /\ h <= 4) THEN 1
    ELSE 0

\* The opponent whose previous ranks are looked up, or NoPlayer (lines 310-323).
UnderdogOpponent(g, m, matches, store) ==
    IF UnderdogGuard(g, store) /\ MatchRows(matches, g, m) # {}
    THEN OpponentId(matches[Min(MatchRows(matches, g, m))], m)
    ELSE NoPlayer

\* The gameweeks the store is filtered on while scoring (g, m) (line 325).
UnderdogReads(g, m, matches, store) ==
    IF UnderdogOpponent(g, m, matches, store) # NoPlayer THEN {g - 1} ELSE {}

\* underdog_score of lines 309-338
UnderdogScore(g, m, matches, store) ==
    LET opp == UnderdogOpponent(g, m, matches, store)
        rows == StoreRows(store, g - 1, opp)
    IN IF opp # NoPlayer /\ rows # {}
       THEN UnderdogHierarchy(store[Min(rows)].classic_rank, store[Min(rows)].h2h_rank)
       ELSE 0

\* ------------------------------------------------------ shooting_stars
\* rank_rise of lines 276-280. history is history['current']; the rows are
\* taken by position: history[gw-1] and history[gw-2] of the code are the
\* rows g and g-1 of the sequence. A rank of 0 stands for a missing one.
RankRise(history, g) ==
    IF g > 1 /\ Len(history) >= g
    THEN LET rank_now == history[g].overall_rank
             rank_prev == history[g - 1].overall_rank
         IN IF rank_prev # 0 /\ rank_now # 0
            THEN (IF rank_prev - rank_now > 0 THEN rank_prev - rank_now ELSE 0)
            ELSE 0
    ELSE 0

\* -------------------------------------------------------- penalty_king
\* One element of the live payload of a gameweek.
LiveElement(p, saved) == [id |-> p, stats |-> [penalties_saved |-> saved]]

\* penalties_saved of the first live element of player p, 0 without one
\* (lines 288-290)
LivePenaltiesSaved(live, p) ==
    LET hits == {i \in 1..Len(live.elements) : live.elements[i].id = p}
    IN IF hits = {} THEN 0 ELSE live.elements[Min(hits)].stats.penalties_saved

RECURSIVE SumSaves(_, _)
SumSaves(S, live) ==
    IF S = {} THEN 0
    ELSE LET p == CHOOSE x \in S : TRUE
         IN LivePenaltiesSaved(live, p) * 3 + SumSaves(S \ {p}, live)

\* web_name of a player in the elements table of bootstrap-static
WebName(p) == 100 + p

\* player_name_to_id.get(player_name) of lines 158 and 298: the id of the
\* player of that web name, NoPlayer for a name no player has.
PlayerNameToId(name) ==
    LET hits == {p \in Players : WebName(p) = name}
    IN IF hits = {} THEN NoPlayer ELSE CHOOSE p \in hits : \A q \in hits : q <= p

ManualColumns == {"Gameweek", "Player_Name", "Event_Type"}
EventTypes == {"Penalty Scored", "Penalty Won", "Penalty Missed"}
PenaltyEvent(g, name, type) == [Gameweek |-> g, Player_Name |-> name, Event_Type |-> type]

\* The worksheet manual_penalty_data: absent, or its records below the
\* header row.
NoSheet == [found |-> FALSE, records |-> <<>>]
Sheet(records) == [found |-> TRUE, records |-> records]

\* Lines 146-154. get_all_records() of a worksheet without records is [],
\* and pd.DataFrame([]) has no columns; the frame of the except branch has
\* the three columns and no rows.
LoadManualPenalty(sheet) ==
    IF ~sheet.found THEN [columns |-> ManualColumns, rows |-> <<>>]
    ELSE IF sheet.records = <<>> THEN [columns |-> {}, rows |-> <<>>]
    ELSE [columns |-> ManualColumns, rows |-> sheet.records]

\* manual_penalty_df['Gameweek'] of line 293 raises KeyError on a frame
\* without that column.
ManualRaises(frame) == "Gameweek" \notin frame.columns

\* The events of lines 293-303 that add a point for a squad.
CountedEvents(active, frame, g) ==
    {i \in 1..Len(frame.rows) :
        /\ frame.rows[i].Gameweek = g
        /\ PlayerNameToId(frame.rows[i].Player_Name) # NoPlayer
        /\ PlayerNameToId(frame.rows[i].Player_Name) \in active
        /\ frame.rows[i].Event_Type \in {"Penalty Scored", "Penalty Won"}}

\* penalty_score_gw of lines 284-306
PenaltyScore(active, live, frame, g) ==
    SumSaves(active, live) + Cardinality(CountedEvents(active, frame, g))

\* ------------------------------------------------------------------ state
VARIABLES
    pc,                   \* where the run is: "loop", "processed", "skipped", "raised", ...
    gw,                   \* the gameweek of the outer loop (line 167)
    manager_id,           \* the manager of the inner loop (line 183)
    picks_data,           \* what the picks fetch of line 184 returned
    player_details_dict,  \* player -> element-summary payload (line 133)
    manager_histories,    \* manager -> history payload (line 131)
    manager_transfers,    \* manager -> transfers list (line 132)
    h2h_matches_data,     \* the results of the head-to-head matches (line 114)
    time_machine_df,      \* the rows of _time_machine_ranks (lines 137-142)
    manager_df,           \* the managers of the classic league (lines 123-125)
    active_squad_ids,     \* line 187
    bench_squad_ids,      \* line 188
    long_format_data,     \* award -> rows (gameweek, manager_name, score)
    store_reads,          \* the gameweeks the store has been filtered on
    worksheets_to_write,  \* award -> leaderboard rows (line 346)
    live_gw_data,         \* the live payload of the gameweek (line 168)
    manual_penalty_df,    \* the frame of manual penalty events (lines 146-154)
    \* the provider and the spreadsheet, which outlive a run of main()
    upstream,             \* the provider's snapshot and which of its fetches fail
    spreadsheet,          \* the worksheets of the Google Sheet: titles and rows
    clock,                \* runs started so far; datetime.now() of line 663
    fetch_failed,         \* a fetch of this run returned None
    prev_published,       \* the spreadsheet as the run started last found it
    runs_on_snapshot,     \* runs completed in a row since the snapshot last changed
    completed_gws,        \* the last finished gameweeks of the completed runs
    \* safe_gspread_api_call (src/app.py lines 14-25)
    api_responses,        \* what the successive calls of api_call_func() do
    max_retries,
    initial_delay,
    attempt,              \* the loop variable of line 16
    calls,                \* calls of api_call_func() made so far
    waits                 \* the delays slept so far, in order

vars == <<pc, gw, manager_id, picks_data, player_details_dict, manager_histories,
          manager_transfers, h2h_matches_data, time_machine_df, manager_df,
          active_squad_ids, bench_squad_ids, long_format_data, store_reads,
          worksheets_to_write, live_gw_data, manual_penalty_df, upstream,
          spreadsheet, clock, fetch_failed,
          prev_published, runs_on_snapshot, completed_gws, api_responses, max_retries,
          initial_delay, attempt, calls, waits>>

runVars ==
    <<upstream, spreadsheet, clock, fetch_failed, prev_published, runs_on_snapshot,
      completed_gws>>

\* finished_gws of line 117 is upstream.finished_gws; last_finished_gw of
\* line 119 is its maximum (0 stands for none, where line 118 returns).
LastFinishedGw ==
    IF upstream.finished_gws = {} THEN 0
    ELSE CHOOSE g \in upstream.finished_gws : \A h \in upstream.finished_gws : h <= g
wrapperVars == <<api_responses, max_retries, initial_delay, attempt, calls, waits>>
inputVars == <<live_gw_data, manual_penalty_df>>

Awards ==
    {"best_vc", "transfer_king", "bench_king", "shooting_stars", "penalty_king",
     "best_underdog"}
\* the single-value awards of line 370 with an integer score
SingleValueAwards ==
    {"highest_gw_score", "freehit_king", "benchboost_king", "triplecaptain_king"}
\* every leaderboard: the two families above and steady_king, whose score is
\* a quotient
AwardTables == Awards \cup SingleValueAwards \cup {"steady_king"}

\* manager_name of a manager id, by manager_df
ManagerName(m) ==
    LET hits == {i \in 1..Len(manager_df) : manager_df[i].manager_id = m}
    IN manager_df[Min(hits)].manager_name

Row(g, name, score) == [gameweek |-> g, manager_name |-> name, score |-> score]

\* long_format_data[award].append(...)
AppendRows(data, scores) ==
    [a \in Awards |->
        IF a \in DOMAIN scores
        THEN Append(data[a], Row(gw, ManagerName(manager_id), scores[a]))
        ELSE data[a]]

\* ---------------------------------------------------------------- actions
\* The body of the manager loop when picks_data is truthy (lines 186-340).
\* A payload without 'picks' raises KeyError at line 188; a bench player whose
\* history is shorter than gw raises IndexError at line 267, after the rows
\* of best_vc and transfer_king were appended.
ProcessManager ==
    /\ pc = "loop"
    /\ ~IsNone(picks_data)
    /\ IF ~HasPicks(picks_data)
       THEN /\ pc' = "raised"
            /\ UNCHANGED <<active_squad_ids, bench_squad_ids, long_format_data, store_reads>>
       ELSE LET active == get_active_squad_ids(picks_data)
                bench == BenchSquadIds(picks_data)
                vc == BestVcScore(picks_data, player_details_dict, gw)
                tk == TransferScore(manager_histories[manager_id],
                                    manager_transfers[manager_id],
                                    player_details_dict, gw)
            IN /\ active_squad_ids' = active
               /\ bench_squad_ids' = bench
               /\ IF BenchRaises(bench, player_details_dict, gw)
                  THEN /\ pc' = "raised"
                       /\ long_format_data' =
                              AppendRows(long_format_data,
                                         [best_vc |-> vc, transfer_king |-> tk])
                       /\ UNCHANGED store_reads
                  ELSE IF ManualRaises(manual_penalty_df)
                  THEN /\ pc' = "raised"
                       /\ long_format_data' =
                              AppendRows(long_format_data,
                                  [best_vc |-> vc, transfer_king |-> tk,
                                   bench_king |-> BenchPoints(bench, player_details_dict, gw),
                                   shooting_stars |->
                                       RankRise(manager_histories[manager_id].current, gw)])
                       /\ UNCHANGED store_reads
                  ELSE /\ pc' = "processed"
                       /\ long_format_data' =
                              AppendRows(long_format_data,
                                  [best_vc |-> vc, transfer_king |-> tk,
                                   bench_king |-> BenchPoints(bench, player_details_dict, gw),
                                   shooting_stars |->
                                       RankRise(manager_histories[manager_id].current, gw),
                                   penalty_king |->
                                       PenaltyScore(active, live_gw_data,
                                                    manual_penalty_df, gw),
                                   best_underdog |-> UnderdogScore(gw, manager_id,
                                                        h2h_matches_data, time_machine_df)])
                       /\ store_reads' = store_reads \cup
                              UnderdogReads(gw, manager_id, h2h_matches_data, time_machine_df)
    /\ UNCHANGED <<gw, manager_id, picks_data, player_details_dict, manager_histories,
                   manager_transfers, h2h_matches_data, time_machine_df, manager_df,
                   worksheets_to_write>>
    /\ UNCHANGED <<runVars, wrapperVars, inputVars>>

\* The body of the manager loop when the picks fetch returned None (line 186):
\* nothing is computed and no row is appended for (gw, manager).
SkipManager ==
    /\ pc = "loop"
    /\ IsNone(picks_data)
    /\ pc' = "skipped"
    /\ UNCHANGED <<gw, manager_id, picks_data, player_details_dict, manager_histories,
                   manager_transfers, h2h_matches_data, time_machine_df, manager_df,
                   active_squad_ids, bench_squad_ids, long_format_data, store_reads,
                   worksheets_to_write>>
    /\ UNCHANGED <<runVars, wrapperVars, inputVars>>

NextManager == ProcessManager \/ SkipManager

\* ------------------------------------------------------ provider payloads
\* manager_df: one row per manager, with distinct display names
DefaultManagerDf ==
    [i \in 1..NumManagers |-> [manager_id |-> i, manager_name |-> i, team_name |-> i]]

HistoryRow(g, pts, mins) == [round |-> g, total_points |-> pts, minutes |-> mins]

\* A full history: one row per gameweek, pts points and 90 minutes in each.
FullHistory(pts) == [g \in 1..MaxGW |-> HistoryRow(g, pts, 90)]

DefaultDetails == [p \in Players |-> [history |-> FullHistory(2)]]

RECURSIVE SumTo(_, _)
\* the points of gameweeks 1..g
SumTo(ptsOf, g) == IF g = 0 THEN 0 ELSE ptsOf[g] + SumTo(ptsOf, g - 1)

\* One row of history['current']; total_points is the season total so far.
CurrentRow(g, pts, total, cost, rank) ==
    [event |-> g, points |-> pts, total_points |-> total, event_transfers_cost |-> cost,
     overall_rank |-> rank]

\* chips: one chip name per gameweek ("none" where no chip was played),
\* listed in gameweek order as the history payload lists them
RECURSIVE ChipList(_, _)
ChipList(chipOf, g) ==
    IF g > MaxGW THEN <<>>
    ELSE (IF chipOf[g] = "none" THEN <<>> ELSE <<[name |-> chipOf[g], event |-> g]>>)
         \o ChipList(chipOf, g + 1)

\* the overall rank of a manager whose rank does not move
SteadyRank == 100

\* A history payload: ptsOf[g] points and the transfer cost in every gameweek
MkHistoryPts(chipOf, ptsOf, cost) ==
    [current |-> [g \in 1..MaxGW |-> CurrentRow(g, ptsOf[g], SumTo(ptsOf, g), cost, SteadyRank)],
     chips |-> ChipList(chipOf, 1)]

MkHistory(chipOf, cost) == MkHistoryPts(chipOf, [g \in Gameweeks |-> 50], cost)

NoChips == [g \in Gameweeks |-> "none"]
DefaultHistories == [m \in Managers |-> MkHistory(NoChips, 0)]
DefaultTransfers == [m \in Managers |-> <<>>]

MatchRow(g, e1, p1, e2, p2) ==
    [event |-> g, entry_1_entry |-> e1, entry_1_points |-> p1,
     entry_2_entry |-> e2, entry_2_points |-> p2]

DefaultMatches == [g \in 1..MaxGW |-> MatchRow(g, 1, 50, 2, 40)]

\* The live payload in which no player saved a penalty.
DefaultLive == [elements |-> [p \in Players |-> LiveElement(p, 0)]]

EmptyLongFormat == [a \in Awards |-> <<>>]
NoWorksheets == [a \in AwardTables |-> <<>>]

\* The spreadsheet before the first run: no worksheet but the manual ones.
Worksheets == AwardTables \cup {"_time_machine_ranks", "metadata"}
NoSpreadsheet == [titles |-> {}, rows |-> [n \in Worksheets |-> <<>>]]

\* A fetch that fails: none, the base data, the live data of a gameweek or the
\* picks of a (gameweek, manager).
NoFault == <<"none", 0, 0>>
DefaultUpstream ==
    [finished_gws |-> 1..MaxGW, shift |-> 0, revised |-> FALSE, fails |-> NoFault,
     fail_run |-> 0]

\* No run of main() is under way and none has completed.
RunIdle ==
    /\ upstream = DefaultUpstream
    /\ spreadsheet = NoSpreadsheet
    /\ clock = 0
    /\ fetch_failed = FALSE
    /\ prev_published = NoSpreadsheet
    /\ runs_on_snapshot = 0
    /\ completed_gws = {}

\* The wrapper has not been called: its defaults of line 14.
WrapperIdle ==
    /\ api_responses = <<>>
    /\ max_retries = 3
    /\ initial_delay = 2
    /\ attempt = 0
    /\ calls = 0
    /\ waits = <<>>

\* What every initial predicate of main() shares: nothing has been computed yet.
InitLocals ==
    /\ manager_df = DefaultManagerDf
    /\ active_squad_ids = {}
    /\ bench_squad_ids = {}
    /\ store_reads = {}
    /\ worksheets_to_write = NoWorksheets

\* No penalty was saved and the worksheet manual_penalty_data is absent.
NoPenaltyInputs ==
    /\ live_gw_data = DefaultLive
    /\ manual_penalty_df = LoadManualPenalty(NoSheet)

InitCommon == InitLocals /\ NoPenaltyInputs /\ RunIdle /\ WrapperIdle

\* The loop is about to process one (gameweek, manager).
InitLoop ==
    /\ InitCommon
    /\ pc = "loop"
    /\ long_format_data = EmptyLongFormat

\* --------------------------------------------------- squad resolution runs
\* Players a substitution pair may name: two starters, two bench players
\* and one player outside the selection.
SubPlayers == {1, 2, StartingXI + 1, StartingXI + 2, NumPicks + 1}
SubPairs == [element_out : SubPlayers, element_in : SubPlayers]

InitSquad ==
    /\ InitLoop
    /\ gw = 1
    /\ manager_id = 1
    /\ \E chip \in Chips :
          /\ picks_data \in {None, NoPicksPayload}
                 \cup {MkPicksData(chip, subs, 1, 2) : subs \in SeqsUpTo(SubPairs, MaxSubs)}
          /\ manager_histories =
                 [DefaultHistories EXCEPT ![1] = MkHistory([NoChips EXCEPT ![1] = chip], 0)]
    /\ player_details_dict = DefaultDetails
    /\ manager_transfers = DefaultTransfers
    /\ h2h_matches_data = DefaultMatches
    /\ time_machine_df = <<>>

SpecSquad == InitSquad /\ [][NextManager]_vars

\* -------------------------------------------------- Aggregator & Ranker
RECURSIVE InsertDesc(_, _)
InsertDesc(s, x) ==
    IF s = <<>> THEN <<x>>
    ELSE IF x >= Head(s) THEN <<x>> \o s
    ELSE <<Head(s)>> \o InsertDesc(Tail(s), x)

RECURSIVE SortDesc(_)
\* the values in descending order
SortDesc(s) == IF s = <<>> THEN <<>> ELSE InsertDesc(SortDesc(Tail(s)), Head(s))

\* Dense ranking: the next distinct value takes the next rank.
RankDense(totals, i) ==
    1 + Cardinality({totals[j] : j \in {k \in 1..Len(totals) : totals[k] > totals[i]}})

\* Series.rank(method='min', ascending=False) (lines 361, 401): the first
\* position, in descending order, of the group of values equal to totals[i].
RankMin(totals, i) ==
    LET sorted == SortDesc(totals)
    IN Min({k \in 1..Len(sorted) : sorted[k] = totals[i]})

RECURSIVE SetToSeq(_)
\* the members of a set of numbers in ascending order
SetToSeq(S) == IF S = {} THEN <<>> ELSE <<Min(S)>> \o SetToSeq(S \ {Min(S)})

RECURSIVE SumSet(_, _, _)
SumSet(rows, n, cols) ==
    IF cols = {} THEN 0
    ELSE LET g == Min(cols)
             hits == {i \in 1..Len(rows) :
                         rows[i].manager_name = n /\ rows[i].gameweek = g}
         IN (IF hits = {} THEN 0 ELSE rows[Min(hits)].score)
            + SumSet(rows, n, cols \ {g})

PivotNames(rows) == {rows[i].manager_name : i \in 1..Len(rows)}
PivotCols(rows) == {rows[i].gameweek : i \in 1..Len(rows)}

\* DataFrame.pivot raises ValueError when two rows share (index, column).
PivotRaises(rows) ==
    \E i, j \in 1..Len(rows) :
        /\ i < j
        /\ rows[i].manager_name = rows[j].manager_name
        /\ rows[i].gameweek = rows[j].gameweek

\* A cell of wide_df after fillna(0) (line 352).
PivotCell(rows, n, g) ==
    LET hits == {i \in 1..Len(rows) : rows[i].manager_name = n /\ rows[i].gameweek = g}
    IN IF hits = {} THEN 0 ELSE rows[Min(hits)].score

\* A Total that is the score of the latest gameweek.
RowLatest(rows, n) == PivotCell(rows, n, CHOOSE g \in PivotCols(rows) :
                                             \A h \in PivotCols(rows) : h <= g)

\* wide_df['Total'] of line 358: the sum of the GW columns.
RowTotal(rows, n) == SumSet(rows, n, PivotCols(rows))

RECURSIVE Merged(_, _, _)
\* final_df of line 360: wide_df in index order, inner-joined on manager_name
\* with manager_df (one row per manager_df row of that name).
Merged(rows, names, mdf) ==
    IF names = <<>> THEN <<>>
    ELSE LET n == Head(names)
             hits == SelectSeq(mdf, LAMBDA r : r.manager_name = n)
         IN [k \in 1..Len(hits) |->
                [Manager |-> n, Team |-> hits[k].team_name,
                 Total |-> RowTotal(rows, n),
                 GW |-> [g \in PivotCols(rows) |-> PivotCell(rows, n, g)]]]
            \o Merged(rows, Tail(names), mdf)

\* final_df['Standings'] of line 361
WithStandings(t) ==
    [i \in 1..Len(t) |->
        [Standings |-> RankMin([k \in 1..Len(t) |-> t[k].Total], i),
         Manager |-> t[i].Manager, Team |-> t[i].Team,
         Total |-> t[i].Total, GW |-> t[i].GW]]

RECURSIVE InsertByStandings(_, _)
InsertByStandings(s, x) ==
    IF s = <<>> THEN <<x>>
    ELSE IF \/ x.Standings < Head(s).Standings
            \/ (x.Standings = Head(s).Standings /\ x.Manager <= Head(s).Manager)
         THEN <<x>> \o s
         ELSE <<Head(s)>> \o InsertByStandings(Tail(s), x)

RECURSIVE SortByStandings(_)
\* sort_values(by=['Standings', 'manager_name']) of line 362
SortByStandings(t) ==
    IF t = <<>> THEN <<>> ELSE InsertByStandings(SortByStandings(Tail(t)), Head(t))

\* column_order of lines 365-366: the four fixed columns, then the columns
\* GWg of the gameweeks 1..last that the pivot has, in ascending order.
ColumnOrder(rows, last) ==
    [fixed |-> <<"Standings", "Team", "Manager", "Total">>,
     gameweeks |-> SetToSeq({g \in 1..last : g \in PivotCols(rows)})]

\* The leaderboard of one award (lines 351-367).
AwardTable(rows, mdf) ==
    SortByStandings(WithStandings(Merged(rows, SetToSeq(PivotNames(rows)), mdf)))

\* The loop of lines 349-367 over the awards: an award without rows is
\* skipped; a pivot that raises aborts the run.
AggregateAwards ==
    /\ pc = "aggregate"
    /\ IF \E a \in Awards : PivotRaises(long_format_data[a])
       THEN /\ pc' = "raised"
            /\ UNCHANGED worksheets_to_write
       ELSE /\ pc' = "aggregated"
            /\ worksheets_to_write' =
                   [a \in DOMAIN worksheets_to_write |->
                       IF a \in Awards /\ long_format_data[a] # <<>>
                       THEN AwardTable(long_format_data[a], manager_df)
                       ELSE worksheets_to_write[a]]
    /\ UNCHANGED <<gw, manager_id, picks_data, player_details_dict, manager_histories,
                   manager_transfers, h2h_matches_data, time_machine_df, manager_df,
                   active_squad_ids, bench_squad_ids, long_format_data, store_reads>>
    /\ UNCHANGED <<runVars, wrapperVars, inputVars>>

\* --------------------------------------------------------- steady_king
\* A quotient num / den (den > 0) kept exact: line 379 divides two integers.
Ratio(n, d) == [num |-> n, den |-> d]
RatioGreater(x, y) == x.num * y.den > y.num * x.den

\* chip_weeks of line 376
ChipWeeks(history) == {history.chips[i].event : i \in 1..Len(history.chips)}

\* The count of all the transfers, chip gameweeks included.
TotalTransfersAll(history, transfers) == Len(transfers)

\* total_transfers of line 377
TotalTransfers(history, transfers) ==
    Cardinality({i \in 1..Len(transfers) : transfers[i].event \notin ChipWeeks(history)})

\* total_points of line 378
TotalPoints(history) ==
    IF history.current # <<>>
    THEN history.current[Len(history.current)].total_points
    ELSE 0

\* The Score of steady_king (line 379)
SteadyScore(history, transfers) ==
    IF TotalTransfers(history, transfers) > 0
    THEN Ratio(TotalPoints(history), TotalTransfers(history, transfers))
    ELSE Ratio(0, 1)

RECURSIVE ProdDen(_)
ProdDen(q) == IF q = <<>> THEN 1 ELSE Head(q).Score.den * ProdDen(Tail(q))

\* The quotients of a table over their common denominator, so that they
\* compare as the numbers they are.
Scaled(t) == [k \in 1..Len(t) |-> t[k].Score.num * (ProdDen(t) \div t[k].Score.den)]

RECURSIVE InsertByRatio(_, _)
InsertByRatio(q, x) ==
    IF q = <<>> THEN <<x>>
    ELSE IF ~RatioGreater(Head(q).Score, x.Score) THEN <<x>> \o q
    ELSE <<Head(q)>> \o InsertByRatio(Tail(q), x)

RECURSIVE SortByRatio(_)
\* sort_values(by='Score', ascending=False) of line 400, on quotients
SortByRatio(t) ==
    IF t = <<>> THEN <<>> ELSE InsertByRatio(SortByRatio(Tail(t)), Head(t))

\* The steady_king table (lines 371-379 and 396-402)
SteadyTable(mdf, histories, transfers) ==
    LET t == SortByRatio(
                 [i \in 1..Len(mdf) |->
                     [Manager |-> mdf[i].manager_name, Team |-> mdf[i].team_name,
                      Score |-> SteadyScore(histories[mdf[i].manager_id],
                                            transfers[mdf[i].manager_id])]])
    IN [i \in 1..Len(t) |->
           [Standings |-> RankMin(Scaled(t), i),
            Team |-> t[i].Team, Manager |-> t[i].Manager, Score |-> t[i].Score]]

\* chip_played of line 384, as line 253
ChipPlayed(history, g) == ChipPlayedThisGw(history, g)

RECURSIVE ChipScores(_, _, _)
\* fh_scores / bb_scores / tc_scores / normal_scores of lines 381-389: the
\* scores (points - event_transfers_cost) of the rows whose chip is `chip`.
ChipScores(history, rows, chip) ==
    IF rows = <<>> THEN <<>>
    ELSE (IF ChipPlayed(history, Head(rows).event) = chip
          THEN <<Head(rows).points - Head(rows).event_transfers_cost>>
          ELSE <<>>)
         \o ChipScores(history, Tail(rows), chip)

RECURSIVE SumSeq(_)
SumSeq(q) == IF q = <<>> THEN 0 ELSE Head(q) + SumSeq(Tail(q))

MaxOrZero(q) ==
    IF q = <<>> THEN 0
    ELSE CHOOSE x \in {q[i] : i \in 1..Len(q)} : \A i \in 1..Len(q) : x >= q[i]

\* The Score of one manager in one single-value award (lines 391-394).
SingleScore(award, history) ==
    CASE award = "freehit_king" -> SumSeq(ChipScores(history, history.current, "freehit"))
      [] award = "benchboost_king" -> SumSeq(ChipScores(history, history.current, "bboost"))
      [] award = "triplecaptain_king" -> SumSeq(ChipScores(history, history.current, "3xc"))
      [] award = "highest_gw_score" -> MaxOrZero(ChipScores(history, history.current, "none"))

RECURSIVE InsertByScore(_, _)
InsertByScore(q, x) ==
    IF q = <<>> THEN <<x>>
    ELSE IF x.Score >= Head(q).Score THEN <<x>> \o q
    ELSE <<Head(q)>> \o InsertByScore(Tail(q), x)

RECURSIVE SortByScore(_)
\* sort_values(by='Score', ascending=False) of line 400
SortByScore(t) ==
    IF t = <<>> THEN <<>> ELSE InsertByScore(SortByScore(Tail(t)), Head(t))

\* df['Standings'] of line 401
WithScoreStandings(t) ==
    [i \in 1..Len(t) |->
        [Standings |-> RankMin([k \in 1..Len(t) |-> t[k].Score], i),
         Team |-> t[i].Team, Manager |-> t[i].Manager, Score |-> t[i].Score]]

\* The table of one single-value award (lines 371-402): one row per row of
\* manager_df.
SingleValueTable(award, mdf, histories) ==
    WithScoreStandings(SortByScore(
        [i \in 1..Len(mdf) |->
            [Manager |-> mdf[i].manager_name, Team |-> mdf[i].team_name,
             Score |-> SingleScore(award, histories[mdf[i].manager_id])]]))

\* The single-value awards of lines 369-402.
AggregateSingleValue ==
    /\ pc = "aggregated"
    /\ pc' = "ranked"
    /\ worksheets_to_write' =
           [a \in DOMAIN worksheets_to_write |->
               IF a \in SingleValueAwards
               THEN SingleValueTable(a, manager_df, manager_histories)
               ELSE IF a = "steady_king"
               THEN SteadyTable(manager_df, manager_histories, manager_transfers)
               ELSE worksheets_to_write[a]]
    /\ UNCHANGED <<gw, manager_id, picks_data, player_details_dict, manager_histories,
                   manager_transfers, h2h_matches_data, time_machine_df, manager_df,
                   active_squad_ids, bench_squad_ids, long_format_data, store_reads>>
    /\ UNCHANGED <<runVars, wrapperVars, inputVars>>

NextAggregate == AggregateAwards \/ AggregateSingleValue

\* ----------------------------------------------------- aggregation runs
Scorers == 1..NumScored
Cells == Gameweeks \X Scorers
NoCell == <<0, 0>>

RECURSIVE RowsOf(_, _, _, _)
\* The rows the gameweek and manager loops append, in loop order: one row per
\* (gameweek, manager) but for the skipped one.
RowsOf(scoreOf, skipped, g, m) ==
    IF g > MaxGW THEN <<>>
    ELSE IF m > NumScored THEN RowsOf(scoreOf, skipped, g + 1, 1)
    ELSE (IF <<g, m>> = skipped THEN <<>> ELSE <<Row(g, m, scoreOf[<<g, m>>])>>)
         \o RowsOf(scoreOf, skipped, g, m + 1)

\* The chip each manager played: manager 1 a free hit and manager 2 a bench
\* boost in gameweek 1, manager 3 a triple captain in the last gameweek,
\* manager 4 a wildcard in gameweek 1, the others none.
ChipPlan(m) ==
    [g \in Gameweeks |->
        CASE m = 1 /\ g = 1 -> "freehit"
          [] m = 2 /\ g = 1 -> "bboost"
          [] m = 3 /\ g = MaxGW -> "3xc"
          [] m = 4 /\ g = 1 -> "wildcard"
          [] OTHER -> "none"]

\* The loops are over: the rows of one award are in, with the scores 0 or 1 in
\* every cell and at most one cell missing; a manager's gameweek points are
\* 40 plus ten times that score.
InitAward ==
    /\ InitCommon
    /\ pc = "aggregate"
    /\ gw = MaxGW
    /\ manager_id = NumManagers
    /\ picks_data = None
    /\ player_details_dict = DefaultDetails
    /\ manager_transfers = DefaultTransfers
    /\ h2h_matches_data = DefaultMatches
    /\ time_machine_df = <<>>
    /\ \E scoreOf \in [Cells -> {0, 1}], skipped \in Cells \cup {NoCell} :
          /\ long_format_data =
                 [a \in Awards |->
                     IF a = "best_vc" THEN RowsOf(scoreOf, skipped, 1, 1) ELSE <<>>]
          /\ manager_histories =
                 [m \in Managers |->
                     MkHistoryPts(ChipPlan(m),
                         [g \in Gameweeks |->
                             IF m \in Scorers THEN 40 + 10 * scoreOf[<<g, m>>] ELSE 50],
                         0)]

\* ------------------------------------------------------ squad properties
\* The manager's selection was fetched with its picks and the loop body ran
\* to its end.
Resolved == pc = "processed" /\ HasPicks(picks_data)

AllPicked == {picks_data.picks[i].element : i \in 1..Len(picks_data.picks)}

\* C1: with selection data present the active squad has exactly 11 members
\* without the bench-boost chip and exactly 15 with it, whatever automatic
\* substitutions the payload lists.
ActiveSquadSize ==
    Resolved =>
        Cardinality(active_squad_ids) =
            IF picks_data.active_chip = "bboost" THEN NumPicks ELSE StartingXI

\* C2: under bench-boost the active squad is all 15 picks and the bench is
\* empty, so bench_king sums over no players.
BenchBoostBenchEmpty ==
    (Resolved /\ picks_data.active_chip = "bboost") =>
        /\ active_squad_ids = AllPicked
        /\ bench_squad_ids = {}
        /\ long_format_data["bench_king"][1].score = 0

\* C3: the automatic substitutions are applied in listed order to the squad
\* of either branch: all 15 picks under bench-boost, the first 11 otherwise.
SubsAppliedInEveryBranch ==
    Resolved =>
        active_squad_ids =
            ApplySubs(IF picks_data.active_chip = "bboost" THEN AllPicked
                      ELSE PicksHead(picks_data.picks, StartingXI),
                      picks_data.automatic_subs)

\* C4: applying the substitution list again to the squad obtained by applying
\* it once gives the same set of players.
SubsIdempotent ==
    Resolved =>
        LET subs == picks_data.automatic_subs
            once == IF picks_data.active_chip = "bboost"
                    THEN ApplySubs(active_squad_ids, subs)
                    ELSE active_squad_ids
        IN ApplySubs(once, subs) = once

\* A resolved first-11 squad whose list swaps a starter for a bench player and
\* then names that bench player as the outgoing one.
SubsIdempotentWitness ==
    /\ Resolved
    /\ picks_data.active_chip # "bboost"
    /\ Len(picks_data.automatic_subs) = 2
    /\ picks_data.automatic_subs[1].element_in = picks_data.automatic_subs[2].element_out
    /\ picks_data.automatic_subs[1].element_out = 1
    /\ picks_data.automatic_subs[2].element_in # picks_data.automatic_subs[2].element_out
    /\ active_squad_ids # PicksHead(picks_data.picks, StartingXI)

\* -------------------------------------------------- vice-captain runs
DefaultPicks == MkPicksData("none", <<>>, 1, 2)

RECURSIVE HistoriesFrom(_)
\* Histories over the rounds g..MaxGW: a round has no row, or a row of a
\* player who did not play, played for nothing, or played and scored.
HistoriesFrom(g) ==
    IF g > MaxGW THEN {<<>>}
    ELSE LET rest == HistoriesFrom(g + 1)
             rows == {HistoryRow(g, 0, 0), HistoryRow(g, 0, 90), HistoryRow(g, 5, 90)}
         IN rest \cup {<<r>> \o h : r \in rows, h \in rest}

\* The captain is pick 1; the vice-captain is pick 2 when one is flagged.
InitVc ==
    /\ InitLoop
    /\ gw \in Gameweeks
    /\ manager_id = 1
    /\ picks_data \in {None} \cup {MkPicksData("none", <<>>, 1, v) : v \in {NoPlayer, 2}}
    /\ \E hc \in HistoriesFrom(1), hv \in HistoriesFrom(1) :
          player_details_dict =
              [DefaultDetails EXCEPT ![1] = [history |-> hc], ![2] = [history |-> hv]]
    /\ manager_histories = DefaultHistories
    /\ manager_transfers = DefaultTransfers
    /\ h2h_matches_data = DefaultMatches
    /\ time_machine_df = <<>>

SpecVc == InitVc /\ [][NextManager]_vars

\* ------------------------------------------------------ transfer runs
Outsider == NumPicks + 1

RECURSIVE TransferList(_, _)
\* nOf[g] transfers in every gameweek g: the k-th brings in the outsider
\* (k = 1) or bench player k and sends out starter k.
TransferList(nOf, g) ==
    IF g > MaxGW THEN <<>>
    ELSE [k \in 1..nOf[g] |->
             [event |-> g,
              element_in |-> IF k = 1 THEN Outsider ELSE StartingXI + k,
              element_out |-> k]]
         \o TransferList(nOf, g + 1)

InitTransfer ==
    /\ InitLoop
    /\ gw \in Gameweeks
    /\ manager_id = 1
    /\ \E chipOf \in [Gameweeks -> {"none", "wildcard", "freehit", "bboost"}],
          cost \in {0, 4} :
          /\ manager_histories = [DefaultHistories EXCEPT ![1] = MkHistory(chipOf, cost)]
          /\ picks_data \in {None, MkPicksData(chipOf[gw], <<>>, 1, 2)}
    /\ \E nOf \in [Gameweeks -> 0..MaxTransfers] :
          manager_transfers = [DefaultTransfers EXCEPT ![1] = TransferList(nOf, 1)]
    /\ \E pts \in {2, 7} :
          player_details_dict =
              [DefaultDetails EXCEPT ![Outsider] = [history |-> FullHistory(pts)]]
    /\ h2h_matches_data = DefaultMatches
    /\ time_machine_df = <<>>

SpecTransfer == InitTransfer /\ [][NextManager]_vars

\* ------------------------------------------------------ underdog runs
\* A league table as a cyclic shift of the managers: manager m holds rank
\* ((m - 1 + k) % NumManagers) + 1.
RankOf(m, k) == ((m - 1 + k) % NumManagers) + 1
ManagerAtRank(r, k) == CHOOSE m \in Managers : RankOf(m, k) = r

StoreRow(g, m, c, h) ==
    [gameweek |-> g, manager_id |-> m, manager_name |-> m,
     classic_rank |-> c, h2h_rank |-> h]

RECURSIVE StoreOf(_, _, _, _)
\* The store as line 660 leaves it: the rows of the recorded gameweeks,
\* sorted by gameweek and classic rank, one row per manager and gameweek.
StoreOf(gws, kc, kh, g) ==
    IF g > MaxGW THEN <<>>
    ELSE (IF g \in gws
          THEN [r \in 1..NumManagers |->
                   StoreRow(g, ManagerAtRank(r, kc), r, RankOf(ManagerAtRank(r, kc), kh))]
          ELSE <<>>)
         \o StoreOf(gws, kc, kh, g + 1)

\* Managers 1 and 2 meet in every gameweek; the rest have no match.
Outcomes == {<<50, 40>>, <<40, 50>>, <<45, 45>>}
MatchesOf(res) == [g \in 1..MaxGW |-> MatchRow(g, 1, res[g][1], 2, res[g][2])]

InitUnderdog ==
    /\ InitLoop
    /\ gw \in Gameweeks
    /\ manager_id \in Managers
    /\ picks_data \in {None, DefaultPicks}
    /\ player_details_dict = DefaultDetails
    /\ manager_histories = DefaultHistories
    /\ manager_transfers = DefaultTransfers
    /\ \E res \in [Gameweeks -> Outcomes] : h2h_matches_data = MatchesOf(res)
    /\ \E gws \in SUBSET Gameweeks, kc \in 0..(NumManagers - 1), kh \in 0..(NumManagers - 1) :
          time_machine_df = StoreOf(gws, kc, kh, 1)

SpecUnderdog == InitUnderdog /\ [][NextManager]_vars

\* ------------------------------------------------- metric properties
\* The rows the loop body appended for the award, as a set of scores.
Scored(award) ==
    {long_format_data[award][i].score : i \in 1..Len(long_format_data[award])}

CaptainId ==
    LET hits == {i \in 1..Len(picks_data.picks) : picks_data.picks[i].is_captain}
    IN picks_data.picks[Min(hits)].element

\* The captain has a history row for this gameweek that records zero minutes.
CaptainDidNotPlay ==
    \E i \in 1..Len(player_details_dict[CaptainId].history) :
        /\ player_details_dict[CaptainId].history[i].round = gw
        /\ player_details_dict[CaptainId].history[i].minutes = 0

ViceCaptainPoints ==
    LET vice == {picks_data.picks[i].element :
                    i \in {j \in 1..Len(picks_data.picks) : picks_data.picks[j].is_vice_captain}}
    IN IF vice = {} THEN 0
       ELSE LET h == player_details_dict[CHOOSE v \in vice : TRUE].history
                rows == {i \in 1..Len(h) : h[i].round = gw}
            IN IF rows = {} THEN 0 ELSE h[Min(rows)].total_points

\* C6: best_vc is 0 when the captain's recorded minutes for the gameweek are
\* zero, whatever the vice-captain scored; otherwise it is the vice-captain's
\* own points for the gameweek.
VcZeroWhenCaptainDidNotPlay ==
    Resolved =>
        Scored("best_vc") = {IF CaptainDidNotPlay THEN 0 ELSE ViceCaptainPoints}

\* The transfers manager_id made in this gameweek.
TransfersThisGw ==
    {i \in 1..Len(manager_transfers[manager_id]) :
        manager_transfers[manager_id][i].event = gw}

\* C10: transfer_king is 0 in a gameweek where a wildcard or free-hit chip
\* was active, even with transfers recorded in it, and 0 when no transfer was
\* made in the gameweek.
TransferZeroUnderChip ==
    (Resolved /\ (picks_data.active_chip \in {"wildcard", "freehit"}
                  \/ TransfersThisGw = {})) =>
        Scored("transfer_king") = {0}

\* A wildcard gameweek with a transfer that gained points: the player brought
\* in outscored the one sent out.
TransferZeroUnderChipWitness ==
    /\ Resolved
    /\ picks_data.active_chip = "wildcard"
    /\ TransfersThisGw # {}
    /\ \E i \in TransfersThisGw :
          LET t == manager_transfers[manager_id][i]
          IN player_details_dict[t.element_in].history[gw].total_points
                 > player_details_dict[t.element_out].history[gw].total_points
    /\ Scored("transfer_king") = {0}

\* The matches of this gameweek manager_id won, with the beaten opponent.
BeatenOpponents ==
    {h2h_matches_data[i].entry_2_entry :
        i \in {j \in 1..Len(h2h_matches_data) :
                 /\ h2h_matches_data[j].event = gw
                 /\ h2h_matches_data[j].entry_1_entry = manager_id
                 /\ h2h_matches_data[j].entry_1_points > h2h_matches_data[j].entry_2_points}}
    \cup
    {h2h_matches_data[i].entry_1_entry :
        i \in {j \in 1..Len(h2h_matches_data) :
                 /\ h2h_matches_data[j].event = gw
                 /\ h2h_matches_data[j].entry_2_entry = manager_id
                 /\ h2h_matches_data[j].entry_2_points > h2h_matches_data[j].entry_1_points}}

\* Whoever manager_id met in this gameweek, whatever the result.
Opponents ==
    {h2h_matches_data[i].entry_2_entry :
        i \in {j \in 1..Len(h2h_matches_data) :
                 h2h_matches_data[j].event = gw /\ h2h_matches_data[j].entry_1_entry = manager_id}}
    \cup
    {h2h_matches_data[i].entry_1_entry :
        i \in {j \in 1..Len(h2h_matches_data) :
                 h2h_matches_data[j].event = gw /\ h2h_matches_data[j].entry_2_entry = manager_id}}

\* The store's snapshots of manager m for gameweek g.
Snapshots(g, m) ==
    {time_machine_df[i] :
        i \in {j \in 1..Len(time_machine_df) :
                 time_machine_df[j].gameweek = g /\ time_machine_df[j].manager_id = m}}

InTwoToFour(r) == r \in 2..4

\* C7: after a win in a gameweek g > 1 against an opponent with a snapshot for
\* g - 1, the underdog score is 3 if the opponent was rank 1 in both systems,
\* 2 if rank 1 in exactly one, 1 if rank 1 in neither but ranked 2 to 4 in at
\* least one, and 0 otherwise.
UnderdogScoreByOpponentRank ==
    (pc = "processed" /\ gw > 1) =>
        \A opp \in BeatenOpponents : \A snap \in Snapshots(gw - 1, opp) :
            LET c == snap.classic_rank
                h == snap.h2h_rank
            IN Scored("best_underdog") =
                   {CASE c = 1 /\ h = 1 -> 3
                      [] (c = 1) # (h = 1) -> 2
                      [] c # 1 /\ h # 1 /\ (InTwoToFour(c) \/ InTwoToFour(h)) -> 1
                      [] OTHER -> 0}

\* A win over an opponent who was first in the classic table only.
UnderdogScoreByOpponentRankWitness ==
    /\ pc = "processed"
    /\ gw > 1
    /\ \E opp \in BeatenOpponents : \E snap \in Snapshots(gw - 1, opp) :
          snap.classic_rank = 1 /\ snap.h2h_rank > 4
    /\ Scored("best_underdog") = {2}

\* C8: the underdog score is 0 whenever the manager did not win a match in
\* the gameweek (a loss, a draw or no match), whatever the opponent's ranks.
UnderdogZeroWithoutWin ==
    BeatenOpponents = {} => Scored("best_underdog") \subseteq {0}

\* A draw in a gameweek g > 1 against the leader of both tables at g - 1.
UnderdogZeroWithoutWinWitness ==
    /\ pc = "processed"
    /\ gw > 1
    /\ BeatenOpponents = {}
    /\ \E opp \in Opponents : \E snap \in Snapshots(gw - 1, opp) :
          snap.classic_rank = 1 /\ snap.h2h_rank = 1
    /\ Scored("best_underdog") = {0}

\* C9: in gameweek 1, with an empty store, or without a store row for
\* (g - 1, opponent), the underdog score is 0 and the loop body completes;
\* the store is never filtered on a gameweek <= 0.
UnderdogDegradesWithoutHistory ==
    /\ (/\ pc \in {"processed", "raised"}
        /\ HasPicks(picks_data)
        /\ \/ gw = 1
           \/ time_machine_df = <<>>
           \/ \A opp \in Opponents : Snapshots(gw - 1, opp) = {})
       => (pc = "processed" /\ Scored("best_underdog") = {0})
    /\ \A g \in store_reads : g >= 1

\* A win in a gameweek g > 1 over an opponent the store, though not empty,
\* has no row for at g - 1.
UnderdogDegradesWithoutHistoryWitness ==
    /\ pc = "processed"
    /\ gw > 1
    /\ time_machine_df # <<>>
    /\ BeatenOpponents # {}
    /\ \A opp \in Opponents : Snapshots(gw - 1, opp) = {}
    /\ store_reads = {gw - 1}
    /\ Scored("best_underdog") = {0}

SpecAward == InitAward /\ [][NextAggregate]_vars

\* ----------------------------------------------------- rank properties
\* The value a table ranks its rows by: Total, or Score in a single-value table.
Ranked(row) == IF "Total" \in DOMAIN row THEN row.Total ELSE row.Score

\* x ranks above y in table a
Exceeds(a, x, y) ==
    IF a = "steady_king" THEN RatioGreater(x.Score, y.Score) ELSE Ranked(x) > Ranked(y)

\* C5: in every award table a manager's Standings is 1 plus the number of
\* managers of the table with a strictly greater Total (or Score), so ties
\* share a rank and the next distinct value skips the tie group.
CompetitionRanking ==
    \A a \in AwardTables :
        LET t == worksheets_to_write[a]
        IN \A i \in 1..Len(t) :
               t[i].Standings =
                   1 + Cardinality({j \in 1..Len(t) : Exceeds(a, t[j], t[i])})

\* Two managers tied at the top and a third below them, ranked 1, 1, 3.
CompetitionRankingWitness ==
    /\ pc = "ranked"
    /\ \E t \in {worksheets_to_write[a] : a \in SingleValueAwards} :
          \E i, j, k \in 1..Len(t) :
              /\ i # j
              /\ t[i].Score = t[j].Score
              /\ t[k].Score < t[i].Score
              /\ t[i].Standings = 1 /\ t[j].Standings = 1 /\ t[k].Standings >= 3
    /\ \E a \in Awards :
          LET t == worksheets_to_write[a]
          IN /\ Len(t) = 3
             /\ t[1].Total = t[2].Total
             /\ t[3].Total < t[2].Total
             /\ <<t[1].Standings, t[2].Standings, t[3].Standings>> = <<1, 1, 3>>

\* ---------------------------------------------------- steady_king runs
\* The transfers of one manager, one per listed gameweek.
TransfersAt(events) ==
    [i \in 1..Len(events) |->
        [event |-> events[i], element_in |-> NumPicks + 1, element_out |-> 1]]

\* The loops appended nothing; manager 1 has any chips, points and transfers,
\* manager 2 one transfer in gameweek 1 and the others none.
InitSteady ==
    /\ InitCommon
    /\ pc = "aggregate"
    /\ gw = MaxGW
    /\ manager_id = NumManagers
    /\ picks_data = None
    /\ long_format_data = EmptyLongFormat
    /\ player_details_dict = DefaultDetails
    /\ h2h_matches_data = DefaultMatches
    /\ time_machine_df = <<>>
    /\ \E chipOf \in [Gameweeks -> {"none", "wildcard", "bboost"}],
          ptsOf \in [Gameweeks -> {40, 45}],
          events \in SeqsUpTo(Gameweeks, MaxTransfers) :
          /\ manager_histories =
                 [DefaultHistories EXCEPT ![1] = MkHistoryPts(chipOf, ptsOf, 0)]
          /\ manager_transfers =
                 [DefaultTransfers EXCEPT ![1] = TransfersAt(events),
                                          ![2] = TransfersAt(<<1>>)]

SpecSteady == InitSteady /\ [][NextAggregate]_vars

\* The transfers of manager m made in a gameweek without a chip.
NonChipTransfers(m) ==
    Cardinality({i \in 1..Len(manager_transfers[m]) :
        \A k \in 1..Len(manager_histories[m].chips) :
            manager_histories[m].chips[k].event # manager_transfers[m][i].event})

\* The points of manager m over the season.
SeasonPoints(m) ==
    SumSeq([g \in 1..Len(manager_histories[m].current) |->
               manager_histories[m].current[g].points])

\* C11: the steady_king score of a manager without a transfer outside the
\* chip gameweeks is 0, and nothing is raised; otherwise the score times the
\* number of those transfers is the season's total points.
SteadyKingScore ==
    /\ pc # "raised"
    /\ pc = "ranked" =>
          LET t == worksheets_to_write["steady_king"]
          IN /\ Len(t) = NumManagers
             /\ \A i \in 1..Len(t) :
                    LET n == NonChipTransfers(t[i].Manager)
                    IN IF n = 0 THEN t[i].Score.num = 0
                       ELSE t[i].Score.num * n = SeasonPoints(t[i].Manager) * t[i].Score.den

\* Manager 1 made transfers, all of them in bench-boost gameweeks, and scores
\* 0; manager 2 made one outside a chip gameweek and scores the season total.
SteadyKingScoreWitness ==
    /\ pc = "ranked"
    /\ \E i, j \in 1..Len(worksheets_to_write["steady_king"]) :
          LET zero == worksheets_to_write["steady_king"][i]
              some == worksheets_to_write["steady_king"][j]
          IN /\ NonChipTransfers(zero.Manager) = 0
             /\ Len(manager_transfers[zero.Manager]) = MaxTransfers
             /\ manager_histories[zero.Manager].chips[1].name = "bboost"
             /\ SeasonPoints(zero.Manager) > 0
             /\ zero.Score.num = 0
             /\ NonChipTransfers(some.Manager) > 0
             /\ some.Score.num = SeasonPoints(some.Manager) * some.Score.den

\* ================================================== one run of main()
MaxRuns == 3          \* runs of main() started

\* Where main() is when no run is under way: after "Pipeline finished
\* successfully", after an early return, after an exception; "idle" before
\* the first run and once the provider has changed since the last one.
Resting == {"idle", "done", "exited", "raised"}

\* ---------------------------------------------------------- the provider
\* get_json_from_url (lines 62-70) returns the payload, or None when the
\* request failed.
\* The fault of run number run: upstream.fails in the run upstream.fail_run,
\* or in every run when that is 0.
FaultIn(run) == IF upstream.fail_run \in {0, run} THEN upstream.fails ELSE NoFault

BaseFetched(run) == FaultIn(run)[1] # "base"
LiveFetched(g) == FaultIn(clock) # <<"live", g, 0>>
PicksFetch(g, m) == IF FaultIn(clock) = <<"picks", g, m>> THEN None ELSE DefaultPicks

\* An early return for a failed base fetch only.
ExitsEarlyOnFetchOnly(run) == ~BaseFetched(run)

\* Lines 115 and 118: the two early returns.
ExitsEarly(run) == ~BaseFetched(run) \/ upstream.finished_gws = {}

\* The season as the provider will have recorded it at its end, and what
\* it has recorded once n gameweeks have finished.
SeasonHistories == [m \in Managers |-> MkHistory(ChipPlan(m), 0)]
HistoryAsOf(h, n) ==
    [current |-> SubSeq(h.current, 1, n),
     chips |-> SelectSeq(h.chips, LAMBDA c : c.event <= n)]
DetailsAsOf(n) == [p \in Players |-> [history |-> SubSeq(FullHistory(2), 1, n)]]

\* classic_ranks_now and h2h_ranks_now of lines 639-640.  Every manager of
\* manager_df is in the classic standings; the last one is not in the
\* head-to-head league and gets the default of line 654.
Standing(m) == RankOf(m, upstream.shift + (IF upstream.revised THEN 2 ELSE 0))
ClassicRankNow(m) == Standing(m)
H2hRankNow(m) == IF m = NumManagers THEN 999 ELSE Standing(m)

\* ---------------------------------------------------------- Time Machine
\* The store as lines 137-142 load it.
LoadTimeMachine ==
    IF "_time_machine_ranks" \in spreadsheet.titles
    THEN spreadsheet.rows["_time_machine_ranks"]
    ELSE <<>>

\* An upsert that keeps the old rows of the gameweek.
StoreKeepAll(store, g) == store

\* An upsert that drops every old row.
StoreDropAll(store, g) == <<>>

\* Line 643: the rows of the other gameweeks.
StoreWithout(store, g) == SelectSeq(store, LAMBDA r : r.gameweek # g)

\* new_ranks_list of lines 646-655
NewRanks(mdf, g) ==
    [i \in 1..Len(mdf) |->
        [gameweek |-> g, manager_id |-> mdf[i].manager_id,
         manager_name |-> mdf[i].manager_name,
         classic_rank |-> ClassicRankNow(mdf[i].manager_id),
         h2h_rank |-> H2hRankNow(mdf[i].manager_id)]]

StoreBefore(x, y) ==
    \/ x.gameweek < y.gameweek
    \/ x.gameweek = y.gameweek /\ x.classic_rank < y.classic_rank

RECURSIVE InsertStoreRow(_, _)
\* x goes after the rows it does not precede: rows that tie keep their order.
InsertStoreRow(q, x) ==
    IF q = <<>> THEN <<x>>
    ELSE IF StoreBefore(x, Head(q)) THEN <<x>> \o q
    ELSE <<Head(q)>> \o InsertStoreRow(Tail(q), x)

RECURSIVE SortStore(_)
\* sort_values(by=['gameweek', 'classic_rank']) of line 660
SortStore(t) ==
    IF t = <<>> THEN <<>>
    ELSE InsertStoreRow(SortStore(SubSeq(t, 1, Len(t) - 1)), t[Len(t)])

\* An update that records the ranks for the gameweek before as well.
UpdatedTimeMachineBackfill(store, mdf, g) ==
    SortStore(StoreWithout(StoreWithout(store, g), g - 1)
              \o NewRanks(mdf, g - 1) \o NewRanks(mdf, g))

\* updated_time_machine_df of line 660
UpdatedTimeMachine(store, mdf, g) == SortStore(StoreWithout(store, g) \o NewRanks(mdf, g))

\* metadata_df of line 663
Metadata(g, now) == <<[last_finished_gw |-> g, last_updated_utc |-> now]>>

\* ------------------------------------------------------------ the steps
\* Lines 94-166: the base fetches, the early returns, the pre-fetches and the
\* load of the Time Machine.  A run is a fresh process: its locals start
\* empty.
StartRun ==
    /\ pc \in Resting
    /\ clock < MaxRuns
    /\ clock' = clock + 1
    /\ fetch_failed' = ~BaseFetched(clock + 1)
    /\ prev_published' = spreadsheet
    /\ long_format_data' = EmptyLongFormat
    /\ worksheets_to_write' = NoWorksheets
    /\ active_squad_ids' = {}
    /\ bench_squad_ids' = {}
    /\ store_reads' = {}
    /\ gw' = 0
    /\ manager_id' = 0
    /\ picks_data' = None
    /\ IF ExitsEarly(clock + 1)
       THEN /\ pc' = "exited"
            /\ UNCHANGED <<manager_histories, player_details_dict, time_machine_df>>
       ELSE /\ pc' = "gameweeks"
            /\ manager_histories' =
                   [m \in Managers |-> HistoryAsOf(SeasonHistories[m], LastFinishedGw)]
            /\ player_details_dict' = DetailsAsOf(LastFinishedGw)
            /\ time_machine_df' = LoadTimeMachine
    /\ UNCHANGED <<manager_transfers, h2h_matches_data, manager_df, upstream, spreadsheet,
                   runs_on_snapshot, completed_gws, wrapperVars, inputVars>>

\* Lines 167-169 and 342-343: the head of the gameweek loop.  A gameweek
\* whose live data could not be fetched is skipped.
NextGameweek ==
    /\ pc = "gameweeks"
    /\ IF gw = LastFinishedGw
       THEN /\ pc' = "aggregate"
            /\ UNCHANGED <<gw, manager_id, fetch_failed>>
       ELSE /\ gw' = gw + 1
            /\ manager_id' = 0
            /\ IF LiveFetched(gw + 1)
               THEN pc' = "managers" /\ UNCHANGED fetch_failed
               ELSE pc' = "gameweeks" /\ fetch_failed' = TRUE
    /\ UNCHANGED <<picks_data, player_details_dict, manager_histories, manager_transfers,
                   h2h_matches_data, time_machine_df, manager_df, active_squad_ids,
                   bench_squad_ids, long_format_data, store_reads, worksheets_to_write,
                   upstream, spreadsheet, clock, prev_published, runs_on_snapshot,
                   completed_gws, wrapperVars, inputVars>>

\* Lines 182-184: the head of the manager loop and the fetch of the picks.
\* manager_df lists the managers in the order of their ids.
FetchPicks ==
    /\ pc \in {"managers", "processed", "skipped"}
    /\ IF manager_id = Len(manager_df)
       THEN /\ pc' = "gameweeks"
            /\ UNCHANGED <<manager_id, picks_data, fetch_failed>>
       ELSE /\ pc' = "loop"
            /\ manager_id' = manager_df[manager_id + 1].manager_id
            /\ picks_data' = PicksFetch(gw, manager_df[manager_id + 1].manager_id)
            /\ fetch_failed' =
                   (fetch_failed \/ IsNone(PicksFetch(gw, manager_df[manager_id + 1].manager_id)))
    /\ UNCHANGED <<gw, player_details_dict, manager_histories, manager_transfers,
                   h2h_matches_data, time_machine_df, manager_df, active_squad_ids,
                   bench_squad_ids, long_format_data, store_reads, worksheets_to_write,
                   upstream, spreadsheet, clock, prev_published, runs_on_snapshot,
                   completed_gws, wrapperVars, inputVars>>

\* Lines 636-664: the ranks of the last finished gameweek replace the rows
\* the store has for it.  A worksheet that exists without a row loads as a
\* frame without columns, and line 643 raises KeyError on it.
UpdateTimeMachine ==
    /\ pc = "ranked"
    /\ IF "_time_machine_ranks" \in spreadsheet.titles /\ time_machine_df = <<>>
       THEN pc' = "raised" /\ UNCHANGED worksheets_to_write
       ELSE /\ pc' = "recorded"
            /\ worksheets_to_write' =
                   [n \in Worksheets |->
                       IF n = "_time_machine_ranks"
                       THEN UpdatedTimeMachine(time_machine_df, manager_df, LastFinishedGw)
                       ELSE IF n = "metadata" THEN Metadata(LastFinishedGw, clock)
                       ELSE worksheets_to_write[n]]
    /\ UNCHANGED <<gw, manager_id, picks_data, player_details_dict, manager_histories,
                   manager_transfers, h2h_matches_data, time_machine_df, manager_df,
                   active_squad_ids, bench_squad_ids, long_format_data, store_reads,
                   runVars, wrapperVars, inputVars>>

\* The entries of worksheets_to_write: an award without a row has none
\* (lines 350 and 397).
Written == {n \in DOMAIN worksheets_to_write : worksheets_to_write[n] # <<>>}

\* worksheets_to_write.items() of line 667: the entries in the order of
\* their insertion (lines 160-163, 370, 661 and 664).
PublishOrder ==
    <<"best_vc", "transfer_king", "bench_king", "shooting_stars", "best_underdog",
      "penalty_king", "steady_king", "highest_gw_score", "freehit_king",
      "benchboost_king", "triplecaptain_king", "_time_machine_ranks", "metadata">>

\* Lines 669-672: the worksheet is cleared, or created when missing.
Cleared(sheet, n) ==
    [titles |-> sheet.titles \cup {n}, rows |-> [sheet.rows EXCEPT ![n] = <<>>]]

\* Line 673: set_with_dataframe writes the frame.
Filled(sheet, n, df) ==
    [titles |-> sheet.titles \cup {n}, rows |-> [sheet.rows EXCEPT ![n] = df]]

RECURSIVE PublishLoop(_, _, _)
\* Lines 667-675 over the entries order[1..]: the spreadsheet they leave and
\* whether an error was raised.  fault = <<"write", k, 0>> makes the
\* worksheet()/clear()/add_worksheet request of the k-th entry raise
\* APIError, <<"write", k, 1>> its set_with_dataframe; nothing catches
\* either, so the loop ends there.
PublishLoop(sheet, order, fault) ==
    IF order = <<>> THEN [sheet |-> sheet, raised |-> FALSE]
    ELSE LET n == Head(order)
             k == Len(PublishOrder) - Len(order) + 1
         IN IF n \notin Written THEN PublishLoop(sheet, Tail(order), fault)
            ELSE IF fault = <<"write", k, 0>>
            THEN [sheet |-> sheet, raised |-> TRUE]
            ELSE IF fault = <<"write", k, 1>>
            THEN [sheet |-> Cleared(sheet, n), raised |-> TRUE]
            ELSE PublishLoop(Filled(sheet, n, worksheets_to_write[n]), Tail(order), fault)

\* Lines 666-677: the entries of worksheets_to_write replace the rows of
\* their worksheets one after the other; the run ends with the first
\* request that raises.
Publish ==
    /\ pc = "recorded"
    /\ LET end == PublishLoop(spreadsheet, PublishOrder, FaultIn(clock))
       IN /\ spreadsheet' = end.sheet
          /\ IF end.raised
             THEN pc' = "raised" /\ runs_on_snapshot' = 0 /\ UNCHANGED completed_gws
             ELSE /\ pc' = "done"
                  /\ runs_on_snapshot' = runs_on_snapshot + 1
                  /\ completed_gws' = completed_gws \cup {LastFinishedGw}
    /\ UNCHANGED <<gw, manager_id, picks_data, player_details_dict, manager_histories,
                   manager_transfers, h2h_matches_data, time_machine_df, manager_df,
                   active_squad_ids, bench_squad_ids, long_format_data, store_reads,
                   worksheets_to_write, upstream, clock, fetch_failed, prev_published,
                   wrapperVars, inputVars>>

\* Between two runs the provider finishes a gameweek and the standings move
\* (fpl_data['events'][..]['finished'] of line 117, 'rank' of lines 639-640).
UpstreamAdvances ==
    /\ pc \in Resting
    /\ LastFinishedGw < MaxGW
    /\ upstream' = [upstream EXCEPT !.finished_gws = @ \cup {LastFinishedGw + 1},
                                    !.shift = (@ + 1) % NumManagers,
                                    !.revised = FALSE]
    /\ runs_on_snapshot' = 0
    /\ pc' = "idle"
    /\ UNCHANGED <<gw, manager_id, picks_data, player_details_dict, manager_histories,
                   manager_transfers, h2h_matches_data, time_machine_df, manager_df,
                   active_squad_ids, bench_squad_ids, long_format_data, store_reads,
                   worksheets_to_write, spreadsheet, clock, fetch_failed, prev_published,
                   completed_gws, wrapperVars, inputVars>>

\* Between two runs the provider revises the standings of the gameweek that
\* finished last ('rank' of lines 639-640).
StandingsRevised ==
    /\ pc \in Resting
    /\ LastFinishedGw > 0
    /\ ~upstream.revised
    /\ upstream' = [upstream EXCEPT !.revised = TRUE]
    /\ runs_on_snapshot' = 0
    /\ pc' = "idle"
    /\ UNCHANGED <<gw, manager_id, picks_data, player_details_dict, manager_histories,
                   manager_transfers, h2h_matches_data, time_machine_df, manager_df,
                   active_squad_ids, bench_squad_ids, long_format_data, store_reads,
                   worksheets_to_write, spreadsheet, clock, fetch_failed, prev_published,
                   completed_gws, wrapperVars, inputVars>>

NextRun ==
    \/ StartRun
    \/ NextGameweek
    \/ FetchPicks
    \/ ProcessManager
    \/ SkipManager
    \/ AggregateAwards
    \/ AggregateSingleValue
    \/ UpdateTimeMachine
    \/ Publish
    \/ UpstreamAdvances
    \/ StandingsRevised

\* The position of a worksheet in the publish order.
PublishIndex(n) == CHOOSE k \in 1..Len(PublishOrder) : PublishOrder[k] = n

Plan(fault, run) == [fails |-> fault, fail_run |-> run]

\* The requests that fail in the runs of one behaviour: none; a fetch of
\* the selections or of the live data, in every run; the base fetch of the
\* second run; the write of the first table in the first or the second run;
\* the clear of the last table in the second run.
FaultPlans ==
    {Plan(NoFault, 0), Plan(<<"base", 0, 0>>, 2), Plan(<<"live", 1, 0>>, 0),
     Plan(<<"picks", 1, 1>>, 0), Plan(<<"picks", MaxGW, 2>>, 0),
     Plan(<<"write", 1, 1>>, 1), Plan(<<"write", 1, 1>>, 2),
     Plan(<<"write", PublishIndex("metadata"), 0>>, 2)}

\* Before the first run: the spreadsheet has no worksheet of the pipeline,
\* no gameweek, the first or only the second has finished, and managers 1 and 2 meet in every
\* gameweek with any result in gameweek 2.
InitRun ==
    /\ InitLocals
    /\ NoPenaltyInputs
    /\ WrapperIdle
    /\ pc = "idle"
    /\ gw = 0
    /\ manager_id = 0
    /\ picks_data = None
    /\ long_format_data = EmptyLongFormat
    /\ player_details_dict = DetailsAsOf(0)
    /\ manager_histories = [m \in Managers |-> HistoryAsOf(SeasonHistories[m], 0)]
    /\ manager_transfers = DefaultTransfers
    /\ time_machine_df = <<>>
    /\ \E o \in Outcomes :
          h2h_matches_data =
              MatchesOf([g \in Gameweeks |-> IF g = 2 THEN o ELSE <<50, 40>>])
    /\ \E f \in {{}, {1}, {2}}, x \in FaultPlans :
          upstream = [finished_gws |-> f, shift |-> 0, revised |-> FALSE,
                      fails |-> x.fails, fail_run |-> x.fail_run]
    /\ spreadsheet = NoSpreadsheet
    /\ clock = 0
    /\ fetch_failed = FALSE
    /\ prev_published = NoSpreadsheet
    /\ runs_on_snapshot = 0
    /\ completed_gws = {}

SpecRun == InitRun /\ [][NextRun]_vars

TypeRun ==
    /\ pc \in Resting \cup {"gameweeks", "managers", "loop", "processed", "skipped",
                            "aggregate", "aggregated", "ranked", "recorded"}
    /\ clock \in 0..MaxRuns

\* ------------------------------------------------------- run properties
TimeMachine(sheet) == sheet.rows["_time_machine_ranks"]
RowsOfGw(store, g) == SelectSeq(store, LAMBDA r : r.gameweek = g)
RowsNotOfGw(store, g) == SelectSeq(store, LAMBDA r : r.gameweek # g)

\* C12 as stated: a run completed on the snapshot of the run completed before
\* it leaves every published table as that run left it.
RerunPublishesIdenticalTables ==
    (pc = "done" /\ runs_on_snapshot >= 2) => spreadsheet = prev_published

\* C12: a run completed on the snapshot of the run completed before it leaves
\* the same worksheets with the same rows as that run, but for the time
\* stamp last_updated_utc of the metadata table.
RerunPublishesSameTablesButTimestamp ==
    (pc = "done" /\ runs_on_snapshot >= 2) =>
        /\ spreadsheet.titles = prev_published.titles
        /\ \A n \in Worksheets \ {"metadata"} : spreadsheet.rows[n] = prev_published.rows[n]
        /\ Len(spreadsheet.rows["metadata"]) = 1
        /\ Len(prev_published.rows["metadata"]) = 1
        /\ spreadsheet.rows["metadata"][1].last_finished_gw
               = prev_published.rows["metadata"][1].last_finished_gw

\* A second run on the snapshot of gameweek 2, where an underdog win was
\* scored from the ranks the store holds for gameweek 1.
RerunPublishesSameTablesButTimestampWitness ==
    /\ pc = "done"
    /\ runs_on_snapshot >= 2
    /\ LastFinishedGw >= 2
    /\ \E i \in 1..Len(spreadsheet.rows["best_underdog"]) :
          spreadsheet.rows["best_underdog"][i].Total > 0
    /\ spreadsheet.rows["metadata"] # prev_published.rows["metadata"]

\* C13: the store holds at most one row per (gameweek, manager), in the
\* spreadsheet and as every run loads and rewrites it.
OneRowPerKey(store) ==
    \A i, j \in 1..Len(store) :
        (store[i].gameweek = store[j].gameweek /\ store[i].manager_id = store[j].manager_id)
            => i = j

StoreOneRowPerGameweekAndManager ==
    /\ OneRowPerKey(TimeMachine(spreadsheet))
    /\ OneRowPerKey(time_machine_df)
    /\ pc \in {"recorded", "done"} => OneRowPerKey(worksheets_to_write["_time_machine_ranks"])

\* Two runs completed while gameweek 2 was the last finished one, after a
\* run for gameweek 1.
StoreOneRowPerGameweekAndManagerWitness ==
    /\ pc = "done"
    /\ runs_on_snapshot >= 2
    /\ Len(RowsOfGw(TimeMachine(prev_published), LastFinishedGw)) = NumManagers
    /\ Len(TimeMachine(spreadsheet)) = 2 * NumManagers

\* C14: a completed run whose last finished gameweek is G leaves the store's
\* rows of every other gameweek as they were, and for G exactly one row per
\* manager, with the manager's current ranks.
RecordReplacesOnlyThatGameweek ==
    pc = "done" =>
        LET G == LastFinishedGw
            old == TimeMachine(prev_published)
            new == TimeMachine(spreadsheet)
        IN /\ RowsNotOfGw(new, G) = RowsNotOfGw(old, G)
           /\ Len(RowsOfGw(new, G)) = NumManagers
           /\ \A m \in Managers :
                  \E i \in 1..Len(new) :
                      /\ new[i].gameweek = G
                      /\ new[i].manager_id = m
                      /\ new[i].classic_rank = ClassicRankNow(m)
                      /\ new[i].h2h_rank = H2hRankNow(m)

\* The store held rows of gameweek G with other ranks, and rows of another
\* gameweek, when the run recorded G.
RecordReplacesOnlyThatGameweekWitness ==
    /\ pc = "done"
    /\ RowsNotOfGw(TimeMachine(prev_published), LastFinishedGw) # <<>>
    /\ RowsOfGw(TimeMachine(prev_published), LastFinishedGw) # <<>>
    /\ RowsOfGw(TimeMachine(prev_published), LastFinishedGw)
           # RowsOfGw(TimeMachine(spreadsheet), LastFinishedGw)

\* C20: a run in which a fetch failed publishes no table.
FetchFailureAbortsRun == ~(pc = "done" /\ fetch_failed)

\* C16: when the picks of a (gameweek, manager) could not be fetched, the
\* run completes and every per-gameweek table shows the manager with 0 for
\* that gameweek.
MissingSelectionReadsZero ==
    (pc = "done" /\ upstream.fails[1] = "picks" /\ upstream.fails[2] <= LastFinishedGw) =>
        \A a \in Awards :
            \E i \in 1..Len(spreadsheet.rows[a]) :
                LET row == spreadsheet.rows[a][i]
                IN /\ row.Manager = ManagerName(upstream.fails[3])
                   /\ upstream.fails[2] \in DOMAIN row.GW
                   /\ row.GW[upstream.fails[2]] = 0

\* ------------------------------------------------ player-history runs
BenchPlayer == StartingXI + 1

\* The vice-captain (pick 2), the first bench player and the player
\* manager 1 brought in for pick 1 have any history: rounds may be missing.
InitHistory ==
    /\ InitLoop
    /\ gw \in Gameweeks
    /\ manager_id = 1
    /\ picks_data \in {None, DefaultPicks}
    /\ \E hv \in HistoriesFrom(1), hb \in HistoriesFrom(1),
          hi \in {<<>>, FullHistory(5)} :
          player_details_dict =
              [DefaultDetails EXCEPT ![2] = [history |-> hv],
                                     ![BenchPlayer] = [history |-> hb],
                                     ![Outsider] = [history |-> hi]]
    /\ manager_histories = DefaultHistories
    /\ manager_transfers =
           [DefaultTransfers EXCEPT
               ![1] = <<[event |-> gw, element_in |-> Outsider, element_out |-> 1]>>]
    /\ h2h_matches_data = DefaultMatches
    /\ time_machine_df = <<>>

SpecHistory == InitHistory /\ [][NextManager]_vars

\* The points player p has on record for round g: 0 without such a row.
RecordedPoints(p, g) ==
    LET h == player_details_dict[p].history
        hits == {i \in 1..Len(h) : h[i].round = g}
    IN IF hits = {} THEN 0 ELSE h[CHOOSE i \in hits : TRUE].total_points

RECURSIVE RecordedSum(_, _)
RecordedSum(S, g) ==
    IF S = {} THEN 0
    ELSE LET p == CHOOSE x \in S : TRUE
         IN RecordedPoints(p, g) + RecordedSum(S \ {p}, g)

\* C15: whatever rows the histories of the players lack, the body of the loop
\* raises nothing, and the bench, vice-captain and transfer scores count 0
\* for a player without a row for the gameweek.
MissingHistoryCountsZero ==
    /\ pc # "raised"
    /\ pc = "processed" =>
          /\ Scored("bench_king") = {RecordedSum(PicksTail(picks_data.picks, StartingXI), gw)}
          /\ Scored("best_vc") = {RecordedPoints(2, gw)}
          /\ Scored("transfer_king") = {RecordedPoints(Outsider, gw) - RecordedPoints(1, gw)}

\* ================================ safe_gspread_api_call (src/app.py)
MaxRetries == 3       \* largest max_retries drawn, and calls scripted

\* What one call of api_call_func() does: it returns, raises APIError with
\* status 429 or with another status, or raises an error that is no APIError.
CallOutcomes == {"ok", "429", "500", "transport"}

\* The test of line 20 taken for every APIError.
IsAnyApiError(outcome) == outcome \in {"429", "500"}

\* e.response.status_code == 429 (line 20)
IsRateLimit(outcome) == outcome = "429"

\* wait_time of line 21
WaitTime(delay, k) == delay * 2 ^ k

\* Lines 16-18: the loop takes its next value and the call is made.  An error
\* that is no APIError is not caught and leaves the wrapper.
CallApi ==
    /\ pc = "for"
    /\ attempt < max_retries
    /\ calls' = calls + 1
    /\ pc' = CASE api_responses[calls + 1] = "ok" -> "returned"
               [] api_responses[calls + 1] = "transport" -> "raised_transport"
               [] OTHER -> "except"
    /\ UNCHANGED <<gw, manager_id, picks_data, player_details_dict, manager_histories,
                   manager_transfers, h2h_matches_data, time_machine_df, manager_df,
                   active_squad_ids, bench_squad_ids, long_format_data, store_reads,
                   worksheets_to_write, runVars, inputVars, api_responses, max_retries,
                   initial_delay, attempt, waits>>

\* Lines 19-24: an APIError of another status is raised again.  On status 429
\* line 21 computes wait_time and line 22 calls time.sleep, but app.py does
\* not import time: the name lookup raises NameError, which leaves the
\* wrapper before any delay and before the next iteration.
HandleApiError ==
    /\ pc = "except"
    /\ pc' = IF IsRateLimit(api_responses[calls]) THEN "raised_name_error"
             ELSE "raised_api_error"
    /\ UNCHANGED <<gw, manager_id, picks_data, player_details_dict, manager_histories,
                   manager_transfers, h2h_matches_data, time_machine_df, manager_df,
                   active_squad_ids, bench_squad_ids, long_format_data, store_reads,
                   worksheets_to_write, runVars, wrapperVars, inputVars>>

\* Line 25: the loop is over without a return.
RaiseExhausted ==
    /\ pc = "for"
    /\ attempt >= max_retries
    /\ pc' = "raised_exhausted"
    /\ UNCHANGED <<gw, manager_id, picks_data, player_details_dict, manager_histories,
                   manager_transfers, h2h_matches_data, time_machine_df, manager_df,
                   active_squad_ids, bench_squad_ids, long_format_data, store_reads,
                   worksheets_to_write, runVars, wrapperVars, inputVars>>

NextCall == CallApi \/ HandleApiError \/ RaiseExhausted

\* The wrapper is entered with any max_retries and initial_delay, and the
\* wrapped call behaves in any way at each of its calls.
InitRetry ==
    /\ InitLocals
    /\ NoPenaltyInputs
    /\ RunIdle
    /\ gw = 0
    /\ manager_id = 0
    /\ picks_data = None
    /\ long_format_data = EmptyLongFormat
    /\ player_details_dict = DefaultDetails
    /\ manager_histories = DefaultHistories
    /\ manager_transfers = DefaultTransfers
    /\ h2h_matches_data = DefaultMatches
    /\ time_machine_df = <<>>
    /\ pc = "for"
    /\ api_responses \in [1..MaxRetries -> CallOutcomes]
    /\ max_retries \in 0..MaxRetries
    /\ initial_delay \in {1, 2}
    /\ attempt = 0
    /\ calls = 0
    /\ waits = <<>>

SpecRetry == InitRetry /\ [][NextCall]_vars

\* --------------------------------------------------- wrapper properties
WrapperLeft ==
    pc \in {"returned", "raised_transport", "raised_api_error", "raised_name_error",
            "raised_exhausted"}

\* The calls that fail with the rate-limit status before any other outcome,
\* among the first max_retries.
RECURSIVE LeadingRateLimits(_)
LeadingRateLimits(k) ==
    IF k > max_retries \/ api_responses[k] # "429" THEN 0
    ELSE 1 + LeadingRateLimits(k + 1)

\* C17: when the wrapper is left, every call that failed with status 429 and
\* was not the last one allowed was followed by a wait of
\* initial_delay * 2^attempt and by another call, and a call that succeeded
\* gave the result.
RateLimitedCallIsRetried ==
    WrapperLeft =>
        LET n == LeadingRateLimits(1)
        IN /\ calls = IF n < max_retries THEN n + 1 ELSE max_retries
           /\ Len(waits) >= calls - 1
           /\ \A k \in 1..(calls - 1) : waits[k] = WaitTime(initial_delay, k - 1)
           /\ (n < max_retries /\ api_responses[n + 1] = "ok") => pc = "returned"

\* C18: when each of the max_retries calls failed with status 429 the wrapper
\* raises its own error of line 25.
ExhaustedRetriesRaiseExhausted ==
    (WrapperLeft /\ LeadingRateLimits(1) = max_retries) => pc = "raised_exhausted"

\* C19: once a call has failed with anything but the rate-limit status, the
\* wrapper is left with that very error, and no wait followed the call.
OtherFailurePropagatesAtOnce ==
    (calls >= 1 /\ pc # "except" /\ api_responses[calls] \in {"500", "transport"}) =>
        /\ pc = IF api_responses[calls] = "500" THEN "raised_api_error"
                ELSE "raised_transport"
        /\ Len(waits) < calls
        /\ ~ENABLED CallApi

\* The first call fails with status 500 although calls are left and the next
\* one would have succeeded.
OtherFailurePropagatesAtOnceWitness ==
    /\ pc = "raised_api_error"
    /\ calls = 1
    /\ max_retries = MaxRetries
    /\ api_responses[1] = "500"
    /\ api_responses[2] = "ok"

\* ===================================================== publishing
\* The run reached the publish loop of line 667.
ReachedPublish == pc \in {"done", "raised"} /\ "metadata" \in Written

\* The entry whose request fails in the current run, if any.
FailingTables ==
    IF FaultIn(clock)[1] = "write" THEN {PublishOrder[FaultIn(clock)[2]]} ELSE {}

\* C21: when the write of one table fails, every other table of the run's
\* publish list is still written, whether the failing table comes early or
\* late in the list.
OtherTablesStillPublished ==
    ReachedPublish =>
        \A n \in Written \ FailingTables :
            n \in spreadsheet.titles /\ spreadsheet.rows[n] = worksheets_to_write[n]

\* C22: in every state each worksheet either is as the run found it or
\* holds the run's complete table, and nothing is written before every
\* table of the run is computed.
NoTablePartiallyCommitted ==
    /\ \A n \in Worksheets :
          \/ /\ (n \in spreadsheet.titles) = (n \in prev_published.titles)
             /\ spreadsheet.rows[n] = prev_published.rows[n]
          \/ /\ n \in Written
             /\ n \in spreadsheet.titles
             /\ spreadsheet.rows[n] = worksheets_to_write[n]
    /\ spreadsheet # prev_published => "metadata" \in Written

\* The per-gameweek award tables the run published.
PublishedAwards == {a \in Awards : a \in Written}

\* C23: only gameweeks the provider marks finished are scored and
\* published, whatever gameweeks are finished.
FinishedFlagGatesInclusion ==
    /\ \A a \in Awards : \A i \in 1..Len(long_format_data[a]) :
          long_format_data[a][i].gameweek \in upstream.finished_gws
    /\ pc = "done" =>
          \A a \in PublishedAwards : \A i \in 1..Len(spreadsheet.rows[a]) :
              DOMAIN spreadsheet.rows[a][i].GW \subseteq upstream.finished_gws

\* C24: a published per-gameweek award table has the columns Standings,
\* Team, Manager, Total and then GW1..GWN in ascending order, N the last
\* finished gameweek, in every completed run.
AwardTablesHaveEveryGameweekColumn ==
    pc = "done" =>
        \A a \in PublishedAwards :
            /\ ColumnOrder(long_format_data[a], LastFinishedGw) =
                   [fixed |-> <<"Standings", "Team", "Manager", "Total">>,
                    gameweeks |-> [g \in 1..LastFinishedGw |-> g]]
            /\ \A i \in 1..Len(spreadsheet.rows[a]) :
                   DOMAIN spreadsheet.rows[a][i].GW = 1..LastFinishedGw

RECURSIVE SumCells(_, _)
\* the sum of the cells f[g] of the columns g in S
SumCells(f, S) ==
    IF S = {} THEN 0
    ELSE LET g == CHOOSE x \in S : TRUE IN f[g] + SumCells(f, S \ {g})

\* C27: in every per-gameweek award table the Total of a row is the sum of
\* the row's gameweek columns.
TotalIsSumOfGameweekColumns ==
    \A a \in Awards : \A i \in 1..Len(worksheets_to_write[a]) :
        worksheets_to_write[a][i].Total =
            SumCells(worksheets_to_write[a][i].GW, DOMAIN worksheets_to_write[a][i].GW)

\* A row whose two gameweek scores are positive, so that the sum differs
\* from the latest score.
TotalIsSumOfGameweekColumnsWitness ==
    \E a \in Awards : \E i \in 1..Len(worksheets_to_write[a]) :
        /\ DOMAIN worksheets_to_write[a][i].GW = Gameweeks
        /\ \A g \in Gameweeks : worksheets_to_write[a][i].GW[g] > 0
        /\ worksheets_to_write[a][i].Total > worksheets_to_write[a][i].GW[MaxGW]

\* C28: a run that returns early, for a failed base fetch or for no
\* finished gameweek, leaves every worksheet as it found it and computes
\* no table.
EarlyExitWritesNothing ==
    (clock > 0 /\ (FaultIn(clock)[1] = "base" \/ upstream.finished_gws = {})) =>
        /\ pc \in {"exited", "idle"}
        /\ spreadsheet = prev_published
        /\ Written = {}

\* A run returned early on a spreadsheet that an earlier run had filled.
EarlyExitWritesNothingWitness ==
    /\ pc = "exited"
    /\ FaultIn(clock)[1] = "base"
    /\ spreadsheet.rows["metadata"] # <<>>
    /\ TimeMachine(spreadsheet) # <<>>
    /\ spreadsheet.rows["best_vc"] # <<>>

\* C29: in a completed run every manager of the league has exactly one row
\* in every published award table, per-gameweek or single-value.
EveryManagerHasOneRow ==
    pc = "done" =>
        \A a \in AwardTables : a \in Written =>
            \A m \in Managers :
                Cardinality({i \in 1..Len(spreadsheet.rows[a]) :
                                spreadsheet.rows[a][i].Manager = ManagerName(m)}) = 1

\* The gameweeks that have rows in the store.
StoreGameweeks == {TimeMachine(spreadsheet)[i].gameweek : i \in 1..Len(TimeMachine(spreadsheet))}

\* C30: when no publish was cut short, the gameweeks with rows in the store
\* are the last finished gameweeks of the completed runs, and an underdog
\* score of gameweek g is non-zero only if a run completed while g-1 was
\* the last finished gameweek.
StoreHoldsGameweeksOfCompletedRuns ==
    upstream.fails[1] # "write" =>
        /\ StoreGameweeks = completed_gws
        /\ \A i \in 1..Len(spreadsheet.rows["best_underdog"]) :
              \A g \in DOMAIN spreadsheet.rows["best_underdog"][i].GW :
                  spreadsheet.rows["best_underdog"][i].GW[g] # 0 => (g - 1) \in completed_gws

\* Runs completed for both gameweeks and an underdog point was scored in
\* the second; and, in another behaviour, the first run saw gameweek 2
\* finished, so that no rank of gameweek 1 was ever recorded.
StoreHoldsGameweeksOfCompletedRunsWitness ==
    /\ pc = "done"
    /\ upstream.fails[1] # "write"
    /\ completed_gws = Gameweeks
    /\ StoreGameweeks = Gameweeks
    /\ \E i \in 1..Len(spreadsheet.rows["best_underdog"]) :
          spreadsheet.rows["best_underdog"][i].GW[MaxGW] > 0

\* ============================================ shooting_stars (lines 276-281)
MaxRound == 3         \* rounds of a season in the rank-rise runs

\* Player histories with a row for every round of the season.
SeasonDetails == [p \in Players |-> [history |-> [g \in 1..MaxRound |-> HistoryRow(g, 2, 90)]]]

\* history['current'] of a manager who entered the game in round first: one
\* row per round from first on, with the overall rank rankOf[g] after round g.
CurrentFrom(first, rankOf) ==
    [i \in 1..(MaxRound - first + 1) |->
        CurrentRow(first + i - 1, 50, 50 * i, 0, rankOf[first + i - 1])]

\* Manager 1 entered the game in any round and holds any overall ranks, a
\* rank of 0 standing for one the provider does not give.
InitStars ==
    /\ InitLocals /\ NoPenaltyInputs /\ RunIdle /\ WrapperIdle
    /\ pc = "loop"
    /\ long_format_data = EmptyLongFormat
    /\ gw \in 1..MaxRound
    /\ manager_id = 1
    /\ picks_data \in {None, DefaultPicks}
    /\ player_details_dict = SeasonDetails
    /\ \E first \in 1..MaxRound, rankOf \in [1..MaxRound -> {0, 1, 2}] :
          manager_histories =
              [DefaultHistories EXCEPT
                  ![1] = [current |-> CurrentFrom(first, rankOf), chips |-> <<>>]]
    /\ manager_transfers = DefaultTransfers
    /\ h2h_matches_data = DefaultMatches
    /\ time_machine_df = <<>>

SpecStars == InitStars /\ [][NextManager]_vars

\* The overall rank of manager m after round g: 0 when the history has no
\* row for that round or the row has no rank.
OverallRankAt(m, g) ==
    LET h == manager_histories[m].current
        hits == {i \in 1..Len(h) : h[i].event = g}
    IN IF hits = {} THEN 0 ELSE h[CHOOSE i \in hits : TRUE].overall_rank

\* C25: the rank-rise of a manager in gameweek g is max(0, rank after g-1
\* minus rank after g), taken from the rows of rounds g-1 and g wherever
\* the history starts, and 0 in gameweek 1 or when either rank is missing.
RankRiseUsesRanksOfBothRounds ==
    pc = "processed" =>
        Scored("shooting_stars") =
            {IF gw > 1 /\ OverallRankAt(manager_id, gw - 1) # 0
                       /\ OverallRankAt(manager_id, gw) # 0
                       /\ OverallRankAt(manager_id, gw - 1) > OverallRankAt(manager_id, gw)
             THEN OverallRankAt(manager_id, gw - 1) - OverallRankAt(manager_id, gw)
             ELSE 0}

\* ============================================== penalty_king (lines 283-306)
\* A web name no player of the elements table has.
UnknownName == 999

\* The events a manual sheet may list: of either gameweek, naming a starter,
\* a bench player or nobody known, of each type.
ManualEvents ==
    {PenaltyEvent(g, name, type) :
        g \in Gameweeks, name \in {WebName(3), WebName(StartingXI + 1), UnknownName},
        type \in EventTypes}

\* The sheet is absent, has a header row only, or lists one or two events;
\* the goalkeeper and a bench player saved penalties or not, and player 2
\* may be missing from the live payload.
InitPenalty ==
    /\ InitLocals /\ RunIdle /\ WrapperIdle
    /\ pc = "loop"
    /\ long_format_data = EmptyLongFormat
    /\ gw \in Gameweeks
    /\ manager_id = 1
    /\ picks_data \in {None, DefaultPicks, MkPicksData("bboost", <<>>, 1, 2)}
    /\ player_details_dict = DefaultDetails
    /\ manager_histories = DefaultHistories
    /\ manager_transfers = DefaultTransfers
    /\ h2h_matches_data = DefaultMatches
    /\ time_machine_df = <<>>
    /\ \E keeper \in {0, 1}, reserve \in {0, 2}, listed \in BOOLEAN :
          live_gw_data =
              [elements |->
                  (IF listed THEN <<LiveElement(2, 1)>> ELSE <<>>)
                  \o <<LiveElement(1, keeper), LiveElement(StartingXI + 1, reserve),
                       LiveElement(1, 5)>>]
    /\ \E sheet \in {NoSheet} \cup {Sheet(r) : r \in SeqsUpTo(ManualEvents, 2)} :
          manual_penalty_df = LoadManualPenalty(sheet)

SpecPenalty == InitPenalty /\ [][NextManager]_vars

\* The players of the active squad that a manual event of gameweek g and of
\* a counted type names.
RECURSIVE EventPoints(_, _, _)
EventPoints(rows, squad, g) ==
    IF rows = <<>> THEN 0
    ELSE (IF /\ Head(rows).Gameweek = g
             /\ Head(rows).Event_Type \in {"Penalty Scored", "Penalty Won"}
             /\ \E p \in squad : WebName(p) = Head(rows).Player_Name
          THEN 1 ELSE 0) + EventPoints(Tail(rows), squad, g)

RECURSIVE SavePoints(_)
SavePoints(squad) ==
    IF squad = {} THEN 0
    ELSE LET p == CHOOSE x \in squad : TRUE
             hits == {i \in 1..Len(live_gw_data.elements) : live_gw_data.elements[i].id = p}
         IN (IF hits = {} THEN 0
             ELSE 3 * live_gw_data.elements[Min(hits)].stats.penalties_saved)
            + SavePoints(squad \ {p})

\* C26: the penalty metric is 3 per penalty saved by a member of the active
\* squad plus 1 per manual 'Penalty Scored' or 'Penalty Won' event of the
\* gameweek naming a member of the active squad; an unknown name or a sheet
\* without events adds nothing, and the loop body never raises.
PenaltyMetricFromSavesAndEvents ==
    /\ pc # "raised"
    /\ pc = "processed" =>
          Scored("penalty_king") =
              {SavePoints(active_squad_ids)
               + EventPoints(manual_penalty_df.rows, active_squad_ids, gw)}


====
